---- MODULE Spec2Model ----
(***************************************************************************)
(* StockLens: the SQLite bar store (src/database/market_db.py), the        *)
(* incremental cache (src/database/data_cache.py) and the cached download  *)
(* entry point (src/data_ingestion/market_data.py).                        *)
(*                                                                         *)
(* Instants are minutes since day 0, 00:00.  The store keeps a timestamp   *)
(* as ISO text, modelled as its digit string DD HH MM, and compares and    *)
(* orders it as text.  The five OHLCV floats of a bar are written and read *)
(* together and are modelled as one value.  An optional value is <<>>      *)
(* (None) or <<x>>.  A limit of 0 stands for both None and 0: the code     *)
(* only tests the truthiness of a limit.                                   *)
(***************************************************************************)
EXTENDS Integers, Sequences, FiniteSets, TLC

VARIABLES market_data, indicators, signals, agent_runs, recommendations,
          raw_files, writers, run, now, last

vars ==
    <<market_data, indicators, signals, agent_runs, recommendations, raw_files,
      writers, run, now, last>>

\* The tables of the derived rows, the connections writing a batch and the run
\* of the pipeline over the configured assets.
others ==
    <<indicators, signals, agent_runs, recommendations, raw_files, writers, run>>

\* The tables of the analysis agent, and the files of the Finnhub client.
agent == <<agent_runs, recommendations, raw_files>>

\* ------------------------------------------------------------------ bounds
MaxRows == 2

MaxFetch == 2

MaxLimit == 2

MaxDerived == 1

MaxSeries == 5

\* rows in one batch of indicator or signal rows
MaxBatch == 2

\* assets in the configuration file
MaxAssets == 2

\* rows in agent_runs and in recommendations
MaxAgentRows == 2

\* candles in one answer of Finnhub
MaxCandles == 2

\* ------------------------------------------------------------- input sets
None == <<>>

Some(x) == <<x>>

At(d, h, m) == d * 1440 + h * 60 + m

Timestamps == {At(1, 9, 0), At(1, 10, 0), At(1, 11, 0)}

Values == {1, 2}

Clocks == {At(1, 12, 0), At(1, 13, 0)}

Keys ==
    { [symbol |-> "BTCUSDT", source |-> "binance", interval |-> <<"1", "h">>],
      [symbol |-> "AAPL", source |-> "yahoo", interval |-> <<"1", "d">>] }

Bars == [time : Timestamps, ohlcv : Values]

Frames == UNION {[1..n -> Bars] : n \in 0..MaxFetch}

IsAscending(df) == \A i \in 1..(Len(df) - 1) : df[i].time < df[i + 1].time

\* What a provider serves: bars in strictly ascending time order.
Series == {df \in Frames : IsAscending(df)}

Limits == 0..MaxLimit

\* ------------------------------------------------------- timestamps as text
isoformat(t) ==
    LET d == t \div 1440
        h == (t % 1440) \div 60
        m == t % 60
    IN  <<d \div 10, d % 10, h \div 10, h % 10, m \div 10, m % 10>>

fromisoformat(s) ==
    (s[1] * 10 + s[2]) * 1440 + (s[3] * 10 + s[4]) * 60 + s[5] * 10 + s[6]

\* Text comparison, as SQLite compares two TEXT values.
TextLess(a, b) ==
    \/ \E i \in 1..Len(a) :
          /\ i <= Len(b)
          /\ a[i] < b[i]
          /\ \A j \in 1..(i - 1) : a[j] = b[j]
    \/ /\ Len(a) < Len(b)
       /\ \A j \in 1..Len(a) : a[j] = b[j]

\* ------------------------------------------------------------ market_db.py
MatchesKey(r, key) ==
    /\ r.symbol = key.symbol
    /\ r.source = key.source
    /\ r.interval = key.interval

\* Mutant: UNIQUE(symbol, source, interval), the timestamp left out of the index.
UniqueConflictKeyOnly(md, key, text) ==
    \E i \in 1..Len(md) : MatchesKey(md[i], key)

\* UNIQUE(symbol, source, interval, timestamp): the conflict INSERT OR IGNORE skips.
UniqueConflict(md, key, text) ==
    \E i \in 1..Len(md) : MatchesKey(md[i], key) /\ md[i].timestamp = text

\* Mutant: a plain INSERT, no uniqueness conflict.
InsertAlways(md, key, row) ==
    Append(md, [symbol |-> key.symbol, source |-> key.source,
                interval |-> key.interval, timestamp |-> isoformat(row.time),
                ohlcv |-> row.ohlcv])

\* Mutant: INSERT OR REPLACE, the row in conflict is deleted and the new one added.
InsertOrReplaceBar(md, key, row) ==
    LET text == isoformat(row.time)
    IN  SelectSeq(md, LAMBDA r : ~(MatchesKey(r, key) /\ r.timestamp = text))
        \o <<[symbol |-> key.symbol, source |-> key.source,
               interval |-> key.interval, timestamp |-> text,
               ohlcv |-> row.ohlcv]>>

InsertOrIgnore(md, key, row) ==
    LET text == isoformat(row.time)
    IN  IF UniqueConflict(md, key, text)
        THEN md
        ELSE Append(md, [symbol |-> key.symbol, source |-> key.source,
                         interval |-> key.interval, timestamp |-> text,
                         ohlcv |-> row.ohlcv])

\* Mutant: every row of the batch is counted, inserted or not.
RECURSIVE InsertRowsCountAll(_, _, _, _, _)
InsertRowsCountAll(md, df, key, i, count) ==
    IF i > Len(df)
    THEN [md |-> md, count |-> count]
    ELSE InsertRowsCountAll(InsertOrIgnore(md, key, df[i]), df, key, i + 1, count + 1)

\* The loop over the rows; cursor.rowcount is 1 for a row inserted and 0 for a
\* row ignored.
RECURSIVE InsertRows(_, _, _, _, _)
InsertRows(md, df, key, i, count) ==
    IF i > Len(df)
    THEN [md |-> md, count |-> count]
    ELSE LET md2 == InsertOrIgnore(md, key, df[i])
         IN  InsertRows(md2, df, key, i + 1, count + (Len(md2) - Len(md)))

insert_market_data(md, df, key) == InsertRows(md, df, key, 1, 0)

RECURSIVE OrderByTimestamp(_)
OrderByTimestamp(rows) ==
    IF Len(rows) <= 1
    THEN rows
    ELSE LET rest == OrderByTimestamp(Tail(rows))
             x == Head(rows)
             before == SelectSeq(rest, LAMBDA r : ~TextLess(x.timestamp, r.timestamp))
             after == SelectSeq(rest, LAMBDA r : TextLess(x.timestamp, r.timestamp))
         IN  before \o <<x>> \o after

SqlLimit(rows, limit) ==
    IF limit # 0 /\ Len(rows) > limit THEN SubSeq(rows, 1, limit) ELSE rows

get_market_data(md, key, start_date, end_date, limit) ==
    LET matching == SelectSeq(md, LAMBDA r :
            /\ MatchesKey(r, key)
            /\ start_date # None => ~TextLess(r.timestamp, isoformat(start_date[1]))
            /\ end_date # None => ~TextLess(isoformat(end_date[1]), r.timestamp))
        rows == SqlLimit(OrderByTimestamp(matching), limit)
    IN  [i \in 1..Len(rows) |->
            [time |-> fromisoformat(rows[i].timestamp), ohlcv |-> rows[i].ohlcv]]

get_latest_timestamp(md, key) ==
    LET texts == {md[i].timestamp : i \in {j \in 1..Len(md) : MatchesKey(md[j], key)}}
    IN  IF texts = {}
        THEN None
        ELSE Some(fromisoformat(
                CHOOSE t \in texts : \A u \in texts : u = t \/ TextLess(u, t)))

\* Mutant: SELECT id FROM market_data WHERE timestamp = ?, whatever the asset.
MarketDataIdAnyKey(md, key, text) ==
    LET ids == {i \in 1..Len(md) : md[i].timestamp = text}
    IN  IF ids = {} THEN None ELSE Some(CHOOSE i \in ids : \A j \in ids : i <= j)

\* SELECT id FROM market_data WHERE symbol, source, interval, timestamp: rows are
\* never deleted, so the id of a row is its position in the table.
MarketDataId(md, key, text) ==
    LET ids == {i \in 1..Len(md) : MatchesKey(md[i], key) /\ md[i].timestamp = text}
    IN  IF ids = {} THEN None ELSE Some(CHOOSE i \in ids : TRUE)

\* INSERT OR REPLACE under UNIQUE(market_data_id): the row of the same bar is
\* deleted and the new row added.
InsertOrReplace(table, row) ==
    SelectSeq(table, LAMBDA r : r.market_data_id # row.market_data_id) \o <<row>>

\* Mutant: the loop ends at the first row without a bar.
RECURSIVE IndicatorRowsUntilUnmatched(_, _, _, _, _, _)
IndicatorRowsUntilUnmatched(md, table, df, key, i, count) ==
    IF i > Len(df)
    THEN [table |-> table, count |-> count]
    ELSE LET result == MarketDataId(md, key, isoformat(df[i].time))
         IN  IF result = None
             THEN [table |-> table, count |-> count]
             ELSE IndicatorRowsUntilUnmatched(md,
                      InsertOrReplace(table, [market_data_id |-> result[1],
                                              rsi_14 |-> df[i].rsi_14]),
                      df, key, i + 1, count + 1)

\* The loop over the rows of insert_indicators: a row without a bar is passed
\* over.
RECURSIVE IndicatorRows(_, _, _, _, _, _)
IndicatorRows(md, table, df, key, i, count) ==
    IF i > Len(df)
    THEN [table |-> table, count |-> count]
    ELSE LET result == MarketDataId(md, key, isoformat(df[i].time))
         IN  IF result = None
             THEN IndicatorRows(md, table, df, key, i + 1, count)
             ELSE IndicatorRows(md,
                      InsertOrReplace(table, [market_data_id |-> result[1],
                                              rsi_14 |-> df[i].rsi_14]),
                      df, key, i + 1, count + 1)

\* The six indicator columns are written together and are modelled as one.
insert_indicators(md, table, df, key) == IndicatorRows(md, table, df, key, 1, 0)

\* CHECK(recommendation IN ('buy', 'sell', 'hold'))
CheckRecommendation(recommendation) == recommendation \in {"buy", "sell", "hold"}

\* A row failing the CHECK raises sqlite3.IntegrityError, which the loop prints
\* and passes over.
RECURSIVE SignalRows(_, _, _, _, _, _)
SignalRows(md, table, df, key, i, count) ==
    IF i > Len(df)
    THEN [table |-> table, count |-> count]
    ELSE LET result == MarketDataId(md, key, isoformat(df[i].time))
         IN  IF result = None \/ ~CheckRecommendation(df[i].recommendation)
             THEN SignalRows(md, table, df, key, i + 1, count)
             ELSE SignalRows(md,
                      InsertOrReplace(table, [market_data_id |-> result[1],
                                              score |-> df[i].score,
                                              recommendation |-> df[i].recommendation]),
                      df, key, i + 1, count + 1)

insert_signals(md, table, df, key) == SignalRows(md, table, df, key, 1, 0)

\* CHECK(agent_type IN ('local', 'llm')) and CHECK(status IN ('success',
\* 'partial', 'failed')) of agent_runs.
CheckAgentRun(agent_type, status) ==
    /\ agent_type \in {"local", "llm"}
    /\ status \in {"success", "partial", "failed"}

\* INSERT INTO agent_runs: the id is AUTOINCREMENT and no row is ever deleted.
\* A row failing a CHECK raises sqlite3.IntegrityError to the caller.
create_agent_run(runs, agent_type, status, clock) ==
    IF ~CheckAgentRun(agent_type, status)
    THEN [raised |-> TRUE, runs |-> runs, id |-> None]
    ELSE [raised |-> FALSE,
          runs |-> Append(runs, [id |-> Len(runs) + 1, run_timestamp |-> clock,
                                 agent_type |-> agent_type, status |-> status]),
          id |-> Some(Len(runs) + 1)]

\* INSERT INTO recommendations.  The table has the CHECK on recommendation and
\* no UNIQUE index; sqlite3.connect leaves foreign_keys off and __init__ does
\* not turn it on, so the FOREIGN KEY clause is not checked and runs is not read.
insert_recommendation(runs, recs, agent_run_id, symbol, recommendation, clock) ==
    IF ~CheckRecommendation(recommendation)
    THEN [raised |-> TRUE, recs |-> recs, id |-> None]
    ELSE [raised |-> FALSE,
          recs |-> Append(recs, [id |-> Len(recs) + 1,
                                 agent_run_id |-> agent_run_id, symbol |-> symbol,
                                 recommendation |-> recommendation,
                                 created_at |-> clock]),
          id |-> Some(Len(recs) + 1)]

\* ORDER BY r.created_at DESC; rows of one instant are left in the order of
\* their ids.
RECURSIVE OrderByCreatedDesc(_)
OrderByCreatedDesc(rows) ==
    IF Len(rows) <= 1
    THEN rows
    ELSE LET rest == OrderByCreatedDesc(Tail(rows))
             x == Head(rows)
             before == SelectSeq(rest, LAMBDA r : r.created_at > x.created_at)
             after == SelectSeq(rest, LAMBDA r : r.created_at <= x.created_at)
         IN  before \o <<x>> \o after

\* FROM recommendations r JOIN agent_runs ar ON r.agent_run_id = ar.id, WHERE
\* r.symbol = ? when a symbol is given, ORDER BY r.created_at DESC LIMIT ?.
get_recommendation_history(runs, recs, symbol, limit) ==
    LET joined == SelectSeq(recs, LAMBDA r :
            /\ \E k \in 1..Len(runs) : runs[k].id = r.agent_run_id
            /\ symbol # None => r.symbol = symbol[1])
        ordered == OrderByCreatedDesc(joined)
        rows == IF Len(ordered) > limit THEN SubSeq(ordered, 1, limit) ELSE ordered
    IN  [i \in 1..Len(rows) |->
            LET ar == CHOOSE k \in 1..Len(runs) : runs[k].id = rows[i].agent_run_id
            IN  [created_at |-> rows[i].created_at, symbol |-> rows[i].symbol,
                 recommendation |-> rows[i].recommendation,
                 agent_type |-> runs[ar].agent_type]]

\* ----------------------------------------------------------- data_cache.py
get_cached_data(md, key, limit) ==
    LET latest == get_latest_timestamp(md, key)
        cached == get_market_data(md, key, None, None, limit)
    IN  IF latest = None \/ cached = <<>>
        THEN [df |-> None, latest |-> None]
        ELSE [df |-> Some(cached), latest |-> latest]

\* str.lower() and str.strip() on the characters an interval string is made of.
Lower(c) ==
    CASE c = "M" -> "m"
      [] c = "H" -> "h"
      [] c = "D" -> "d"
      [] c = "W" -> "w"
      [] OTHER -> c

RECURSIVE Strip(_)
Strip(s) ==
    IF s = <<>> THEN s
    ELSE IF Head(s) = " " THEN Strip(Tail(s))
    ELSE IF s[Len(s)] = " " THEN Strip(SubSeq(s, 1, Len(s) - 1))
    ELSE s

DigitValue(c) ==
    CASE c = "0" -> 0 [] c = "1" -> 1 [] c = "2" -> 2 [] c = "3" -> 3
      [] c = "4" -> 4 [] c = "5" -> 5 [] c = "6" -> 6 [] c = "7" -> 7
      [] c = "8" -> 8 [] c = "9" -> 9

\* int() of a string of decimal digits.
RECURSIVE ParseInt(_)
ParseInt(s) ==
    IF s = <<>> THEN 0
    ELSE ParseInt(SubSeq(s, 1, Len(s) - 1)) * 10 + DigitValue(s[Len(s)])

\* Mutant: the suffix is matched without lower().
_parse_interval_case_sensitive(interval) ==
    LET s == Strip(interval)
        suffix == IF s = <<>> THEN "" ELSE s[Len(s)]
        number == ParseInt(SubSeq(s, 1, Len(s) - 1))
    IN  CASE suffix = "m" -> number
          [] suffix = "h" -> number * 60
          [] suffix = "d" -> number * 1440
          [] suffix = "w" -> number * 10080
          [] OTHER -> 1440

_parse_interval_to_minutes(interval) ==
    LET s == Strip([i \in 1..Len(interval) |-> Lower(interval[i])])
        suffix == IF s = <<>> THEN "" ELSE s[Len(s)]
        number == ParseInt(SubSeq(s, 1, Len(s) - 1))
    IN  CASE suffix = "m" -> number
          [] suffix = "h" -> number * 60
          [] suffix = "d" -> number * 1440
          [] suffix = "w" -> number * 10080
          [] OTHER -> 1440

\* Mutant: an age equal to the allowed delay already counts as stale.
needs_update_inclusive(latest_timestamp, interval, max_age_hours, clock) ==
    IF latest_timestamp = None
    THEN TRUE
    ELSE LET age == clock - latest_timestamp[1]
         IN  \/ age >= _parse_interval_to_minutes(interval) * 2
             \/ age >= max_age_hours * 60

\* Mutant: the age is taken as a distance, so a timestamp ahead of the clock ages.
needs_update_abs(latest_timestamp, interval, max_age_hours, clock) ==
    IF latest_timestamp = None
    THEN TRUE
    ELSE LET d == clock - latest_timestamp[1]
             age == IF d < 0 THEN 0 - d ELSE d
         IN  \/ age > _parse_interval_to_minutes(interval) * 2
             \/ age > max_age_hours * 60

\* `clock` is datetime.now(); timedeltas are whole minutes.
needs_update(latest_timestamp, interval, max_age_hours, clock) ==
    IF latest_timestamp = None
    THEN TRUE
    ELSE LET expected_delay == _parse_interval_to_minutes(interval) * 2
             age == clock - latest_timestamp[1]
             max_age == max_age_hours * 60
         IN  age > expected_delay \/ age > max_age

DefaultMaxAgeHours == 24

MinTopUp == 100

Max(a, b) == IF a >= b THEN a ELSE b

\* Mutant: the shortfall is taken with the wrong sign.
download_params_signed(cached_count, latest_timestamp, interval, requested_limit, clock) ==
    IF cached_count = 0
    THEN [use_cache |-> FALSE, download_limit |-> requested_limit, start_date |-> None]
    ELSE IF cached_count >= requested_limit
    THEN IF needs_update(latest_timestamp, interval, DefaultMaxAgeHours, clock)
         THEN [use_cache |-> TRUE,
               download_limit |-> Max(MinTopUp, requested_limit \div 10),
               start_date |-> latest_timestamp]
         ELSE [use_cache |-> TRUE, download_limit |-> 0,
               start_date |-> latest_timestamp]
    ELSE [use_cache |-> TRUE,
          download_limit |-> ((cached_count - requested_limit) * 11) \div 10,
          start_date |-> None]

\* Mutant: the top-up is a tenth of the request, without the floor of 100.
download_params_tenth(cached_count, latest_timestamp, interval, requested_limit, clock) ==
    IF cached_count = 0
    THEN [use_cache |-> FALSE, download_limit |-> requested_limit, start_date |-> None]
    ELSE IF cached_count >= requested_limit
    THEN IF needs_update(latest_timestamp, interval, DefaultMaxAgeHours, clock)
         THEN [use_cache |-> TRUE, download_limit |-> requested_limit \div 10,
               start_date |-> latest_timestamp]
         ELSE [use_cache |-> TRUE, download_limit |-> 0,
               start_date |-> latest_timestamp]
    ELSE [use_cache |-> TRUE,
          download_limit |-> ((requested_limit - cached_count) * 11) \div 10,
          start_date |-> None]

\* The decision of get_download_params once the cache has been read:
\* cached_count is len(cached_df), 0 when there is no cache.  int(n * 1.1) is
\* the float product truncated; 1.1 as a double lies just above 11/10, so the
\* product never falls below n * 11 / 10 and the truncation is (n * 11) \div 10.
download_params(cached_count, latest_timestamp, interval, requested_limit, clock) ==
    IF cached_count = 0
    THEN [use_cache |-> FALSE, download_limit |-> requested_limit, start_date |-> None]
    ELSE IF cached_count >= requested_limit
    THEN IF needs_update(latest_timestamp, interval, DefaultMaxAgeHours, clock)
         THEN [use_cache |-> TRUE,
               download_limit |-> Max(MinTopUp, requested_limit \div 10),
               start_date |-> latest_timestamp]
         ELSE [use_cache |-> TRUE, download_limit |-> 0,
               start_date |-> latest_timestamp]
    ELSE LET missing_count == requested_limit - cached_count
         IN  [use_cache |-> TRUE, download_limit |-> (missing_count * 11) \div 10,
              start_date |-> None]

get_download_params(md, key, requested_limit, clock) ==
    LET c == get_cached_data(md, key, 0)
    IN  download_params(IF c.df = None THEN 0 ELSE Len(c.df[1]), c.latest,
                        key.interval, requested_limit, clock)

\* invalidate_cache prints two lines and deletes nothing.
invalidate_cache(md, symbol, source) == md

\* Mutant: keep='first', the cached bar wins.
drop_duplicates_keep_first(df) ==
    LET kept == {i \in 1..Len(df) : \A j \in 1..(i - 1) : df[j].time # df[i].time}
        nth(i) == CHOOSE k \in kept : Cardinality({j \in kept : j <= k}) = i
    IN  [i \in 1..Cardinality(kept) |-> df[nth(i)]]

\* pandas: drop_duplicates(subset=['time'], keep='last')
drop_duplicates_keep_last(df) ==
    LET kept == {i \in 1..Len(df) : \A j \in (i + 1)..Len(df) : df[j].time # df[i].time}
        \* the i-th kept index, in the frame's order
        nth(i) == CHOOSE k \in kept : Cardinality({j \in kept : j <= k}) = i
    IN  [i \in 1..Cardinality(kept) |-> df[nth(i)]]

\* pandas: sort_values('time'), on datetime values
RECURSIVE sort_values_time(_)
sort_values_time(df) ==
    IF Len(df) <= 1
    THEN df
    ELSE LET rest == sort_values_time(Tail(df))
             x == Head(df)
             before == SelectSeq(rest, LAMBDA r : r.time <= x.time)
             after == SelectSeq(rest, LAMBDA r : r.time > x.time)
         IN  before \o <<x>> \o after

\* Mutant: df.head(n), the first rows.
head(df, n) == SubSeq(df, 1, n)

\* pandas: df.tail(n)
tail(df, n) == SubSeq(df, Len(df) - n + 1, Len(df))

\* Mutant: the frame saved is the trimmed one, not the new one.
merge_with_cache_save_trimmed(md, new_df, key, limit) ==
    LET cached == get_cached_data(md, key, 0)
    IN  IF cached.df = None
        THEN [out |-> new_df, merged |-> new_df,
              md |-> insert_market_data(md, new_df, key).md]
        ELSE LET merged == sort_values_time(
                               drop_duplicates_keep_last(cached.df[1] \o new_df))
                 trimmed == IF limit # 0 /\ Len(merged) > limit
                            THEN tail(merged, limit)
                            ELSE merged
             IN  [out |-> trimmed, merged |-> merged,
                  md |-> insert_market_data(md, trimmed, key).md]

\* save_to_cache is insert_market_data on the frame; both branches save new_df.
merge_with_cache(md, new_df, key, limit) ==
    LET cached == get_cached_data(md, key, 0)
        saved == insert_market_data(md, new_df, key).md
    IN  IF cached.df = None
        THEN [out |-> new_df, merged |-> new_df, md |-> saved]
        ELSE LET merged == sort_values_time(
                               drop_duplicates_keep_last(cached.df[1] \o new_df))
                 trimmed == IF limit # 0 /\ Len(merged) > limit
                            THEN tail(merged, limit)
                            ELSE merged
             IN  [out |-> trimmed, merged |-> merged, md |-> saved]

\* ------------------------------------------- binance_client.py, market_data.py
\* What the provider's client call does: it raises, or it returns rows.
Outcomes ==
    {[ok |-> FALSE, rows |-> <<>>]} \cup {[ok |-> TRUE, rows |-> df] : df \in Series}

\* Mutant: a failed call is answered with an empty frame instead of raising.
get_binance_ohlcv_swallow(outcome) ==
    IF outcome.ok /\ outcome.rows = <<>>
    THEN [raised |-> TRUE, df |-> <<>>]
    ELSE [raised |-> FALSE, df |-> outcome.rows]

\* download_ohlcv is get_binance_ohlcv: a failed call and an empty answer both
\* end in SystemExit.
get_binance_ohlcv(outcome) ==
    IF ~outcome.ok \/ outcome.rows = <<>>
    THEN [raised |-> TRUE, df |-> <<>>]
    ELSE [raised |-> FALSE, df |-> outcome.rows]

normalize_binance_data(df) == sort_values_time(df)

normalize_yahoo_data(df) == sort_values_time(df)

\* yf.download raises or returns a frame; an empty frame is a ValueError.
yf_download(outcome) ==
    IF ~outcome.ok \/ outcome.rows = <<>>
    THEN [raised |-> TRUE, df |-> <<>>]
    ELSE [raised |-> FALSE, df |-> outcome.rows]

\* out is the returned frame (None when the call raised or returned None),
\* calls the number of calls made to the provider.
_download_with_cache(md, key, limit, outcome, clock) ==
    IF key.source = "binance"
    THEN LET p == get_download_params(md, key, limit, clock)
         IN  IF p.download_limit = 0
             THEN [out |-> get_cached_data(md, key, limit).df, md |-> md,
                   calls |-> 0, raised |-> FALSE]
             ELSE LET fetched == get_binance_ohlcv(outcome)
                  IN  IF fetched.raised
                      THEN [out |-> None, md |-> md, calls |-> 1, raised |-> TRUE]
                      ELSE LET m == merge_with_cache(
                                        md, normalize_binance_data(fetched.df), key, limit)
                           IN  [out |-> Some(m.out), md |-> m.md, calls |-> 1,
                                raised |-> FALSE]
    ELSE LET cached == get_cached_data(md, key, 0)
         IN  IF cached.df # None
                /\ ~needs_update(cached.latest, key.interval, DefaultMaxAgeHours, clock)
             THEN [out |-> cached.df, md |-> md, calls |-> 0, raised |-> FALSE]
             ELSE LET fetched == yf_download(outcome)
                  IN  IF fetched.raised
                      THEN [out |-> None, md |-> md, calls |-> 1, raised |-> TRUE]
                      ELSE LET new_df == normalize_yahoo_data(fetched.df)
                           IN  [out |-> Some(new_df),
                                md |-> insert_market_data(md, new_df, key).md,
                                calls |-> 1, raised |-> FALSE]

\* ------------------------------------------------------------ signals/rules.py
\* A frame of indicators is its set of columns and its rows; a number is an
\* integer, and a rolling mean is kept as the sum and the size of its window.
MIN_COLS ==
    {"time", "close", "volume", "ema_12", "ema_26", "sma_50", "sma_200",
     "rsi_14", "macd", "macd_signal", "atr_14"}

\* Mutant: a volume window of three rows by default.
SignalConfigShortWindow ==
    [rsi_low |-> 30, rsi_high |-> 70, vol_ma_window |-> 3, atr_mult |-> 2,
     enter_threshold |-> 2]

SignalConfig ==
    [rsi_low |-> 30, rsi_high |-> 70, vol_ma_window |-> 20, atr_mult |-> 2,
     enter_threshold |-> 2]

\* Mutant: the difference is taken the other way round.
_need_cols_reversed(columns) == columns \ MIN_COLS

\* The columns that are missing; make_recommendations raises when there are any.
_need_cols(columns) == MIN_COLS \ columns

RECURSIVE SumVolume(_, _, _)
SumVolume(rows, lo, hi) ==
    IF lo > hi THEN 0 ELSE rows[hi].volume + SumVolume(rows, lo, hi - 1)

\* Mutant: rolling(w, center=True), the window reaches ahead of row i.
_roll_vol_ma_centered(rows, w, i) ==
    LET lo == Max(1, i - w \div 2)
        hi == IF i + (w - 1) \div 2 > Len(rows) THEN Len(rows) ELSE i + (w - 1) \div 2
        n == hi - lo + 1
    IN  IF n < Max(3, w \div 3)
        THEN None
        ELSE Some([sum |-> SumVolume(rows, lo, hi), n |-> n])

\* rolling(w, min_periods=max(3, w//3)).mean() at row i: NaN (None) with fewer
\* observations than min_periods.
_roll_vol_ma(rows, w, i) ==
    LET lo == Max(1, i - w + 1)
        n == i - lo + 1
    IN  IF n < Max(3, w \div 3)
        THEN None
        ELSE Some([sum |-> SumVolume(rows, lo, i), n |-> n])

\* a and b are columns; shift(1) is NaN on the first row, and a comparison with
\* NaN is False.
_cross_up(a, b, i) == i > 1 /\ a[i - 1] <= b[i - 1] /\ a[i] > b[i]

_cross_down(a, b, i) == i > 1 /\ a[i - 1] >= b[i - 1] /\ a[i] < b[i]

Column(rows, c) == [i \in 1..Len(rows) |-> rows[i][c]]

\* Mutant: the score has to exceed the threshold.
EnterRuleStrict(s_momo, s_mr, s_vol, score, cfg) ==
    \/ s_momo = 1 /\ s_vol = 1
    \/ s_mr = 1 /\ s_vol = 1
    \/ score > cfg.enter_threshold

EnterRule(s_momo, s_mr, s_vol, score, cfg) ==
    \/ s_momo = 1 /\ s_vol = 1
    \/ s_mr = 1 /\ s_vol = 1
    \/ score >= cfg.enter_threshold

\* Mutant: the momentum signal counts once.
ScoreUnweighted(s_momo, s_mr, s_vol) == s_momo + s_mr + s_vol

Score(s_momo, s_mr, s_vol) == 2 * s_momo + 1 * s_mr + 1 * s_vol

\* The columns computed for row i before the position loop.
BaseSignals(rows, cfg, i) ==
    LET r == rows[i]
        trend_up == r.sma_50 > r.sma_200
        macd_up == r.macd > r.macd_signal
        macd_xup == _cross_up(Column(rows, "macd"), Column(rows, "macd_signal"), i)
        macd_xdn == _cross_down(Column(rows, "macd"), Column(rows, "macd_signal"), i)
        rsi_pos == r.rsi_14 > 50
        rsi_oversold == r.rsi_14 < cfg.rsi_low
        rsi_rebound == _cross_up(Column(rows, "rsi_14"),
                                 [j \in 1..Len(rows) |-> cfg.rsi_low], i)
        vol_ma == _roll_vol_ma(rows, cfg.vol_ma_window, i)
        vol_ok == vol_ma # None /\ r.volume * vol_ma[1].n > vol_ma[1].sum
        s_momo == IF trend_up /\ (macd_up \/ macd_xup) /\ rsi_pos THEN 1 ELSE 0
        price_above_ref == r.close > r.ema_12
        s_mr == IF rsi_oversold /\ (rsi_rebound \/ price_above_ref) THEN 1 ELSE 0
        s_vol == IF vol_ok THEN 1 ELSE 0
        score == Score(s_momo, s_mr, s_vol)
    IN  [s_momo |-> s_momo, s_mr |-> s_mr, s_vol |-> s_vol, score |-> score,
         enter |-> EnterRule(s_momo, s_mr, s_vol, score, cfg),
         exit_ |-> macd_xdn \/ r.close < r.sma_50]

\* Mutant: the entry rule is read on every row, in a position or not.
RECURSIVE PositionLoopReentering(_, _, _)
PositionLoopReentering(sig, i, acc) ==
    IF i > Len(sig)
    THEN acc
    ELSE LET carried == IF i = 1 THEN FALSE ELSE acc[i - 1].position
             s == sig[i]
             step == IF s.enter
                     THEN [position |-> TRUE, rec |-> "enter"]
                     ELSE IF carried /\ s.exit_
                     THEN [position |-> FALSE, rec |-> "exit"]
                     ELSE [position |-> carried, rec |-> "hold"]
         IN  PositionLoopReentering(sig, i + 1, Append(acc, step))

\* The loop over the rows: acc holds position and rec of the rows before i.
RECURSIVE PositionLoop(_, _, _)
PositionLoop(sig, i, acc) ==
    IF i > Len(sig)
    THEN acc
    ELSE LET carried == IF i = 1 THEN FALSE ELSE acc[i - 1].position
             s == sig[i]
             step == IF ~carried /\ s.enter
                     THEN [position |-> TRUE, rec |-> "enter"]
                     ELSE IF carried /\ s.exit_
                     THEN [position |-> FALSE, rec |-> "exit"]
                     ELSE [position |-> carried, rec |-> "hold"]
         IN  PositionLoop(sig, i + 1, Append(acc, step))

make_recommendations(df, cfg) ==
    IF _need_cols(df.columns) # {}
    THEN [raised |-> TRUE, out |-> <<>>]
    ELSE LET rows == sort_values_time(df.rows)
             sig == [i \in 1..Len(rows) |-> BaseSignals(rows, cfg, i)]
             trace == PositionLoop(sig, 1, <<>>)
         IN  [raised |-> FALSE,
              out |-> [i \in 1..Len(rows) |->
                  LET r == rows[i]
                      s == sig[i]
                  IN  [time |-> r.time, close |-> r.close,
                       score |-> s.score, recommendation |-> trace[i].rec,
                       in_position |-> trace[i].position,
                       stop_level |-> r.close - cfg.atr_mult * r.atr_14,
                       tp_level |-> r.close + cfg.atr_mult * r.atr_14,
                       sig_momentum_trend |-> s.s_momo,
                       sig_mean_reversion |-> s.s_mr,
                       sig_volume |-> s.s_vol]]]

\* ---------------------------------------------------------- signals/signals.py
\* Mutant: a score of zero is a buy.
ClassifyNonNegative(score) ==
    IF score >= 0 THEN "buy" ELSE IF score < 0 THEN "sell" ELSE "hold"

\* np.where(score > 0, "buy", np.where(score < 0, "sell", "hold"))
Classify(score) ==
    IF score > 0 THEN "buy" ELSE IF score < 0 THEN "sell" ELSE "hold"

\* TradingSignalGenerator.generate_signals; signal_generator.py holds the same
\* rules under the column names signal_*.  diff() is NaN on the first row.
generate_signals(rows) ==
    [i \in 1..Len(rows) |->
        LET r == rows[i]
            sig_momentum_trend == IF r.macd > r.macd_signal /\ r.adx > 20 THEN 1 ELSE 0
            sig_mean_reversion == IF r.rsi_14 < 30 THEN 1
                                  ELSE IF r.rsi_14 > 70 THEN -1 ELSE 0
            sig_volume == IF i > 1 /\ r.obv - rows[i - 1].obv > 0 THEN 1 ELSE 0
            score == sig_momentum_trend + sig_mean_reversion + sig_volume
        IN  [time |-> r.time, sig_momentum_trend |-> sig_momentum_trend,
             sig_mean_reversion |-> sig_mean_reversion, sig_volume |-> sig_volume,
             score |-> score, recommendation |-> Classify(score)]]

\* ----------------------------------------------------------------- actions
Requests == (0..MaxLimit) \cup {500, 1010}

\* `last` is the call that has just returned, until its caller takes the result;
\* it keeps the arguments, the table as the call found it and what it returned.
Idle == [op |-> "idle"]

Init ==
    /\ market_data = <<>>
    /\ indicators = <<>>
    /\ signals = <<>>
    /\ writers = <<>>
    /\ run = <<>>
    /\ agent_runs = <<>>
    /\ recommendations = <<>>
    /\ raw_files = <<>>
    /\ now = At(1, 12, 0)
    /\ last = Idle

InsertMarketData(key, df) ==
    LET r == insert_market_data(market_data, df, key)
    IN  /\ last = Idle
        /\ Len(r.md) <= MaxRows
        /\ market_data' = r.md
        /\ last' = [op |-> "insert_market_data", key |-> key, rows |-> Len(df),
                    new |-> df, before |-> market_data, out |-> r.count]
        /\ UNCHANGED <<now, others>>

Dates == {None} \cup {Some(At(1, 10, 0))}

GetMarketData(key, start_date, end_date, limit) ==
    /\ last = Idle
    /\ last' = [op |-> "get_market_data", key |-> key, start_date |-> start_date,
                end_date |-> end_date, limit |-> limit,
                out |-> get_market_data(market_data, key, start_date, end_date,
                                       limit)]
    /\ UNCHANGED <<market_data, now, others>>

MergeWithCache(key, new_df, limit) ==
    LET r == merge_with_cache(market_data, new_df, key, limit)
    IN  /\ last = Idle
        /\ Len(r.md) <= MaxRows
        /\ market_data' = r.md
        /\ last' = [op |-> "merge_with_cache", key |-> key, new |-> new_df,
                    limit |-> limit, before |-> market_data,
                    merged |-> r.merged, out |-> r.out]
        /\ UNCHANGED <<now, others>>

GetDownloadParams(key, requested_limit) ==
    /\ last = Idle
    /\ last' = [op |-> "get_download_params", key |-> key,
                limit |-> requested_limit,
                out |-> get_download_params(market_data, key, requested_limit, now)]
    /\ UNCHANGED <<market_data, now, others>>

\* download_market_data_cached: download_data with use_cache and a limit (binance)
\* or a period (yahoo); the provider answers with at most the rows asked for.
DownloadData(key, limit, outcome) ==
    LET r == _download_with_cache(market_data, key, limit, outcome, now)
        asked == get_download_params(market_data, key, limit, now).download_limit
    IN  /\ last = Idle
        /\ key.source = "binance" => Len(outcome.rows) <= asked
        /\ Len(r.md) <= MaxRows
        /\ market_data' = r.md
        /\ last' = [op |-> "download_data", key |-> key, limit |-> limit,
                    ok |-> outcome.ok, new |-> outcome.rows,
                    before |-> market_data, clock |-> now, out |-> r.out,
                    calls |-> r.calls, raised |-> r.raised]
        /\ UNCHANGED <<now, others>>

Return ==
    /\ last # Idle
    /\ last' = Idle
    /\ UNCHANGED <<market_data, now, others>>

Tick ==
    /\ last = Idle
    /\ \E c \in Clocks : c > now /\ now' = c
    /\ UNCHANGED <<market_data, last, others>>

Next ==
    \/ last = Idle /\ \E key \in Keys, df \in Frames : InsertMarketData(key, df)
    \/ last = Idle /\ \E key \in Keys, s \in Dates, e \in Dates, limit \in Limits :
          GetMarketData(key, s, e, limit)
    \/ last = Idle /\ \E key \in Keys, df \in Series, limit \in Limits :
          MergeWithCache(key, df, limit)
    \/ last = Idle /\ \E key \in Keys, r \in Requests : GetDownloadParams(key, r)
    \/ last = Idle /\ \E key \in Keys, limit \in 1..MaxLimit, o \in Outcomes :
          DownloadData(key, limit, o)
    \/ Return
    \/ Tick

Spec == Init /\ [][Next]_vars

\* ------------------------------------- the bars and the rows derived from them
\* Every operation that writes to the database, on the key of one asset.
RowKeys == {key \in Keys : key.source = "binance"}

IndicatorFrames ==
    {df \in UNION {[1..n -> [time : Timestamps, rsi_14 : {50}]] : n \in 0..MaxDerived} :
        IsAscending(df)}

SignalFrames ==
    {df \in UNION {[1..n -> [time : Timestamps, score : {0},
                             recommendation : {"hold", "enter"}]] :
                       n \in 0..MaxDerived} :
        IsAscending(df)}

InsertIndicators(key, df) ==
    LET r == insert_indicators(market_data, indicators, df, key)
    IN  /\ last = Idle
        /\ indicators' = r.table
        /\ last' = [op |-> "insert_indicators", key |-> key, new |-> df,
                    before |-> indicators, out |-> r.count]
        /\ UNCHANGED <<market_data, signals, writers, run, now, agent>>

InsertSignals(key, df) ==
    LET r == insert_signals(market_data, signals, df, key)
    IN  /\ last = Idle
        /\ signals' = r.table
        /\ last' = [op |-> "insert_signals", key |-> key, new |-> df,
                    before |-> signals, out |-> r.count]
        /\ UNCHANGED <<market_data, indicators, writers, run, now, agent>>

InvalidateCache(symbol, source) ==
    /\ last = Idle
    /\ market_data' = invalidate_cache(market_data, symbol, source)
    /\ last' = [op |-> "invalidate_cache", symbol |-> symbol, source |-> source]
    /\ UNCHANGED <<now, others>>

NextRows ==
    \/ last = Idle /\ \E key \in RowKeys, df \in Series : InsertMarketData(key, df)
    \/ last = Idle /\ \E key \in RowKeys, df \in Series, limit \in Limits :
          MergeWithCache(key, df, limit)
    \/ last = Idle /\ \E key \in RowKeys, limit \in 1..MaxLimit, o \in Outcomes :
          DownloadData(key, limit, o)
    \/ last = Idle /\ \E key \in RowKeys, df \in IndicatorFrames :
          InsertIndicators(key, df) /\ Len(indicators') <= MaxDerived
    \/ last = Idle /\ \E key \in RowKeys, df \in SignalFrames :
          InsertSignals(key, df) /\ Len(signals') <= MaxDerived
    \/ last = Idle /\ \E key \in RowKeys :
          InvalidateCache(Some(key.symbol), Some(key.source))
    \/ InvalidateCache(None, None)
    \/ Return

SpecRows == Init /\ [][NextRows]_vars

\* ------------------------------------------------ batches of derived rows
\* insert_indicators and insert_signals on batches of several rows, for an asset
\* with two stored bars; the instant between them is stored for another asset
\* only.
DerivedKey == CHOOSE key \in Keys : key.source = "binance"

OtherKey == CHOOSE key \in Keys : key # DerivedKey

DerivedBars ==
    insert_market_data(
        insert_market_data(<<>>, <<[time |-> At(1, 9, 0), ohlcv |-> 1],
                                   [time |-> At(1, 11, 0), ohlcv |-> 1]>>,
                           DerivedKey).md,
        <<[time |-> At(1, 10, 0), ohlcv |-> 1]>>, OtherKey).md

IndicatorBatches ==
    {df \in UNION {[1..n -> [time : Timestamps, rsi_14 : {40, 50}]] : n \in 0..MaxBatch} :
        IsAscending(df)}

SignalBatches ==
    {df \in UNION {[1..n -> [time : Timestamps, score : {0},
                             recommendation : {"hold", "buy", "enter"}]] :
                       n \in 0..MaxBatch} :
        IsAscending(df)}

InitDerived ==
    /\ market_data = DerivedBars
    /\ indicators = <<>>
    /\ signals = <<>>
    /\ writers = <<>>
    /\ run = <<>>
    /\ agent_runs = <<>>
    /\ recommendations = <<>>
    /\ raw_files = <<>>
    /\ now = At(1, 12, 0)
    /\ last = Idle

NextDerived ==
    \/ last = Idle /\ \E df \in IndicatorBatches : InsertIndicators(DerivedKey, df)
    \/ last = Idle /\ \E df \in SignalBatches : InsertSignals(DerivedKey, df)
    \/ Return

SpecDerived == InitDerived /\ [][NextDerived]_vars

\* ------------------------------------------------------ two assets in one store
\* One asset has a bar, an indicator row and a signal row in the store; every
\* operation that writes runs for the other asset.
FrameBar == [time |-> At(1, 10, 0), ohlcv |-> 1]

InitFrame ==
    \E other \in Keys :
        LET md == insert_market_data(<<>>, <<FrameBar>>, other).md
        IN  /\ market_data = md
            /\ indicators =
                   insert_indicators(md, <<>>, <<[time |-> FrameBar.time,
                                                 rsi_14 |-> 40]>>, other).table
            /\ signals =
                   insert_signals(md, <<>>, <<[time |-> FrameBar.time, score |-> 0,
                                              recommendation |-> "buy"]>>,
                                  other).table
            /\ writers = <<>>
            /\ run = <<>>
            /\ agent_runs = <<>>
            /\ recommendations = <<>>
            /\ raw_files = <<>>
            /\ now = At(1, 12, 0)
            /\ last = Idle

\* The assets other than the one stored first.
FrameKeys == {key \in Keys : ~MatchesKey(market_data[1], key)}

NextFrame ==
    \/ last = Idle /\ \E key \in FrameKeys, df \in Frames : InsertMarketData(key, df)
    \/ last = Idle /\ \E key \in FrameKeys, df \in Series, limit \in Limits :
          MergeWithCache(key, df, limit)
    \/ last = Idle /\ \E key \in FrameKeys, limit \in 1..MaxLimit, o \in Outcomes :
          DownloadData(key, limit, o)
    \/ last = Idle /\ \E key \in FrameKeys, df \in IndicatorFrames :
          InsertIndicators(key, df) /\ Len(indicators') <= MaxDerived + 1
    \/ last = Idle /\ \E key \in FrameKeys, df \in SignalFrames :
          InsertSignals(key, df) /\ Len(signals') <= MaxDerived + 1
    \/ Return
    \/ Tick

SpecFrame == InitFrame /\ [][NextFrame]_vars

\* ------------------------------------- trading_pipeline.py and stock_lens.py
\* The exception a failed download ends in: get_binance_ohlcv raises SystemExit,
\* which is not an Exception; the Yahoo branch raises ValueError.
DownloadError(key) == IF key.source = "binance" THEN "SystemExit" ELSE "Exception"

\* run_asset_pipeline after the download d: indicators, signals, and the rows
\* saved to the database.  The indicator library is outside the repository: a
\* stage either raises an Exception or gives one indicator row and one signal
\* row (score 0) for every bar.
AfterDownload(d, ind, sig, key, stage_raises) ==
    IF d.raised
    THEN [raised |-> DownloadError(key), md |-> d.md, indicators |-> ind,
          signals |-> sig]
    ELSE IF d.out = None \/ stage_raises
    THEN [raised |-> "Exception", md |-> d.md, indicators |-> ind, signals |-> sig]
    ELSE LET raw == d.out[1]
             indicators_data == [i \in 1..Len(raw) |->
                                    [time |-> raw[i].time, rsi_14 |-> 50]]
             signals_data == [i \in 1..Len(raw) |->
                                 [time |-> raw[i].time, score |-> 0,
                                  recommendation |-> Classify(0)]]
         IN  [raised |-> "none", md |-> d.md,
              indicators |-> insert_indicators(d.md, ind, indicators_data, key).table,
              signals |-> insert_signals(d.md, sig, signals_data, key).table]

\* run_asset_pipeline, and pipeline in stock_lens.py: the download with the
\* cache, then the rest.
run_asset_pipeline(md, ind, sig, key, limit, outcome, stage_raises, clock) ==
    AfterDownload(_download_with_cache(md, key, limit, outcome, clock),
                  ind, sig, key, stage_raises)

\* The entries of the configuration file: two assets, an entry without its
\* symbol and an entry of a source that is not supported.
AssetConfigs ==
    Keys \cup { [symbol |-> "", source |-> "binance", interval |-> <<"1", "h">>],
                [symbol |-> "XBTUSD", source |-> "kraken", interval |-> <<"1", "h">>] }

AssetLists == UNION {[1..n -> AssetConfigs] : n \in 0..MaxAssets}

\* What the provider does for one asset: no answer, an empty answer or one bar.
PipelineOutcomes ==
    {o \in Outcomes : Len(o.rows) <= 1 /\ \A i \in 1..Len(o.rows) : o.rows[i].ohlcv = 1}

\* run_complete_pipeline and main up to the loop: an empty configuration is a
\* warning and a return.
RunCompletePipeline(assets_config) ==
    /\ last = Idle
    /\ run = <<>>
    /\ run' = [assets |-> assets_config, idx |-> 1, attempted |-> <<>>,
               successful |-> 0, failed |-> 0, skipped |-> 0, agent_calls |-> 0,
               at |-> IF assets_config = <<>> THEN "returned" ELSE "loop"]
    /\ UNCHANGED <<market_data, indicators, signals, writers, now, last, agent>>

\* The end of a pass that ran the pipeline of an asset, which returned r:
\* SystemExit leaves the loop and the program.
AssetDone(r) ==
    LET next == [run EXCEPT !.idx = @ + 1, !.attempted = Append(@, run.idx)]
    IN  /\ Len(r.md) <= MaxRows
        /\ market_data' = r.md
        /\ indicators' = r.indicators
        /\ signals' = r.signals
        /\ run' = CASE r.raised = "none" -> [next EXCEPT !.successful = @ + 1]
                     [] r.raised = "Exception" -> [next EXCEPT !.failed = @ + 1]
                     [] OTHER -> [run EXCEPT !.attempted = Append(@, run.idx),
                                             !.at = "exited"]

\* One pass of the loop over the assets.
ProcessAsset(outcome, stage_raises) ==
    /\ run # <<>>
    /\ run.at = "loop"
    /\ run.idx <= Len(run.assets)
    /\ LET asset_config == run.assets[run.idx]
       IN  IF asset_config.symbol = "" \/ asset_config.source = ""
              \/ asset_config.source \notin {"binance", "yahoo"}
           THEN /\ run' = [run EXCEPT !.idx = @ + 1,
                                      !.attempted = Append(@, run.idx),
                                      !.skipped = @ + 1]
                /\ UNCHANGED <<market_data, indicators, signals>>
           ELSE AssetDone(run_asset_pipeline(market_data, indicators, signals,
                                             asset_config, MaxLimit, outcome,
                                             stage_raises, now))
    /\ UNCHANGED <<writers, now, last, agent>>

\* After the loop: the summary is printed.
PrintSummary ==
    /\ run # <<>>
    /\ run.at = "loop"
    /\ run.idx > Len(run.assets)
    /\ run' = [run EXCEPT !.at = "summary"]
    /\ UNCHANGED <<market_data, indicators, signals, writers, now, last, agent>>

\* After the summary: the agent is run when an asset succeeded, and an
\* Exception it raises is printed.  The agents read the processed files and
\* write their report; they do not open the database.
RunAnalysisAgent(agent_raises) ==
    /\ run # <<>>
    /\ run.at = "summary"
    /\ run' = IF run.successful > 0
              THEN [run EXCEPT !.agent_calls = @ + 1,
                               !.at = IF agent_raises THEN "agent failed"
                                                      ELSE "agent done"]
              ELSE [run EXCEPT !.at = "agent skipped"]
    /\ UNCHANGED <<market_data, indicators, signals, writers, now, last, agent>>

NextPipeline ==
    \/ run = <<>> /\ \E assets_config \in AssetLists : RunCompletePipeline(assets_config)
    \/ run # <<>> /\ \E outcome \in PipelineOutcomes, stage_raises \in BOOLEAN :
          ProcessAsset(outcome, stage_raises)
    \/ PrintSummary
    \/ run # <<>> /\ \E agent_raises \in BOOLEAN : RunAnalysisAgent(agent_raises)

SpecPipeline == Init /\ [][NextPipeline]_vars

\* ------------------------------------------------ the tables of the agent
AgentTypes == {"local", "remote"}

RunStatuses == {"success"}

AgentSymbols == {"BTCUSDT", "AAPL"}

AgentRecommendations == {"buy", "enter"}

\* The ids a caller may pass: those create_agent_run can have returned and one
\* more.
RunIds == 1..(MaxAgentRows + 1)

HistoryLimits == {0, 1, 100}

CreateAgentRun(agent_type, status) ==
    LET r == create_agent_run(agent_runs, agent_type, status, now)
    IN  /\ last = Idle
        /\ Len(r.runs) <= MaxAgentRows
        /\ agent_runs' = r.runs
        /\ last' = [op |-> "create_agent_run", agent_type |-> agent_type,
                    status |-> status, raised |-> r.raised, out |-> r.id]
        /\ UNCHANGED <<market_data, indicators, signals, recommendations,
                       raw_files, writers, run, now>>

InsertRecommendation(agent_run_id, symbol, recommendation) ==
    LET r == insert_recommendation(agent_runs, recommendations, agent_run_id,
                                   symbol, recommendation, now)
    IN  /\ last = Idle
        /\ Len(r.recs) <= MaxAgentRows
        /\ recommendations' = r.recs
        /\ last' = [op |-> "insert_recommendation", agent_run_id |-> agent_run_id,
                    symbol |-> symbol, recommendation |-> recommendation,
                    raised |-> r.raised, out |-> r.id]
        /\ UNCHANGED <<market_data, indicators, signals, agent_runs, raw_files,
                       writers, run, now>>

GetRecommendationHistory(symbol, limit) ==
    /\ last = Idle
    /\ last' = [op |-> "get_recommendation_history", symbol |-> symbol,
                limit |-> limit,
                out |-> get_recommendation_history(agent_runs, recommendations,
                                                   symbol, limit)]
    /\ UNCHANGED <<market_data, now, others>>

NextAgent ==
    \/ last = Idle /\ \E agent_type \in AgentTypes, status \in RunStatuses :
          CreateAgentRun(agent_type, status)
    \/ last = Idle /\ \E id \in RunIds, symbol \in AgentSymbols,
                          recommendation \in AgentRecommendations :
          InsertRecommendation(id, symbol, recommendation)
    \/ last = Idle /\ \E symbol \in {None} \cup {Some(a) : a \in AgentSymbols},
                          limit \in HistoryLimits :
          GetRecommendationHistory(symbol, limit)
    \/ Return
    \/ Tick

SpecAgent == Init /\ [][NextAgent]_vars

\* ------------------------------------------------------- finnhub_client.py
CandleColumns == {"time", "open", "high", "low", "close", "volume"}

\* pd.to_datetime(t, unit="s", utc=True): a count of seconds becomes an instant
\* of the UTC calendar.
to_datetime(t) == [tz |-> "UTC", epoch_s |-> t]

\* sort_values("time"): ascending instants; rows of one instant keep no promised
\* order, here the order of the answer.
RECURSIVE sort_values_datetime(_)
sort_values_datetime(rows) ==
    IF Len(rows) <= 1
    THEN rows
    ELSE LET rest == sort_values_datetime(Tail(rows))
             x == Head(rows)
             before == SelectSeq(rest, LAMBDA r : r.time.epoch_s < x.time.epoch_s)
             after == SelectSeq(rest, LAMBDA r : r.time.epoch_s >= x.time.epoch_s)
         IN  before \o <<x>> \o after

\* os.path.join(data_dir, "raw", f"{symbol}_{resolution}.parquet")
RawPath(symbol, resolution) == <<"raw", symbol \o "_" \o resolution \o ".parquet">>

\* Mutant: the frame keeps the order of the answer.
get_stock_candles_unsorted(files, symbol, resolution, data, save) ==
    IF data = None
    THEN [raised |-> TRUE, out |-> None, files |-> files]
    ELSE IF data[1].s # "ok"
    THEN [raised |-> FALSE, out |-> Some([columns |-> CandleColumns, rows |-> <<>>]),
          files |-> files]
    ELSE IF \E c \in {"o", "h", "l", "c", "v"} : Len(data[1][c]) # Len(data[1].t)
    THEN [raised |-> TRUE, out |-> None, files |-> files]
    ELSE LET d == data[1]
             df == [i \in 1..Len(d.t) |->
                           [time |-> to_datetime(d.t[i]), open |-> d.o[i],
                            high |-> d.h[i], low |-> d.l[i], close |-> d.c[i],
                            volume |-> d.v[i]]]
             out == RawPath(symbol, resolution)
         IN  [raised |-> FALSE,
              out |-> Some([columns |-> CandleColumns, rows |-> df]),
              files |-> IF save
                        THEN [f \in DOMAIN files \cup {out} |->
                                 IF f = out THEN df ELSE files[f]]
                        ELSE files]

\* get_stock_candles on the answer data of _get (None: _get raised after its
\* retries).  A status other than 'ok' gives the empty frame; arrays of
\* different lengths make the DataFrame constructor raise; else the frame is
\* built, sorted, written when save is set, and returned.
get_stock_candles(files, symbol, resolution, data, save) ==
    IF data = None
    THEN [raised |-> TRUE, out |-> None, files |-> files]
    ELSE IF data[1].s # "ok"
    THEN [raised |-> FALSE, out |-> Some([columns |-> CandleColumns, rows |-> <<>>]),
          files |-> files]
    ELSE IF \E c \in {"o", "h", "l", "c", "v"} : Len(data[1][c]) # Len(data[1].t)
    THEN [raised |-> TRUE, out |-> None, files |-> files]
    ELSE LET d == data[1]
             df == sort_values_datetime(
                       [i \in 1..Len(d.t) |->
                           [time |-> to_datetime(d.t[i]), open |-> d.o[i],
                            high |-> d.h[i], low |-> d.l[i], close |-> d.c[i],
                            volume |-> d.v[i]]])
             out == RawPath(symbol, resolution)
         IN  [raised |-> FALSE,
              out |-> Some([columns |-> CandleColumns, rows |-> df]),
              files |-> IF save
                        THEN [f \in DOMAIN files \cup {out} |->
                                 IF f = out THEN df ELSE files[f]]
                        ELSE files]

\* The candles of an answer: two instants, and two candles of the later one.
Candles ==
    { [t |-> 120, x |-> 2], [t |-> 60, x |-> 1], [t |-> 120, x |-> 3] }

CandleLists == UNION {[1..n -> Candles] : n \in 0..MaxCandles}

\* The answer with the candles cs: one array for each field.
Answer(status, cs, short) ==
    [s |-> status,
     t |-> [i \in 1..Len(cs) |-> cs[i].t],
     o |-> [i \in 1..Len(cs) |-> cs[i].x],
     h |-> [i \in 1..Len(cs) |-> cs[i].x + 1],
     l |-> [i \in 1..Len(cs) |-> cs[i].x - 1],
     c |-> [i \in 1..Len(cs) |-> cs[i].x],
     v |-> [i \in 1..(Len(cs) - short) |-> 10 * cs[i].x]]

\* What _get returns: nothing (it raised), 'no_data' without candles, 'ok'
\* with candles, or 'ok' with a volume array one short.
Answers ==
    {None, Some(Answer("no_data", <<>>, 0))}
        \cup {Some(Answer("ok", cs, 0)) : cs \in CandleLists}
        \cup {Some(Answer("ok", cs, 1)) : cs \in {x \in CandleLists : Len(x) = 1}}

FinnhubSymbols == {"AAPL"}

Resolutions == {"D", "60"}

GetStockCandles(symbol, resolution, data, save) ==
    LET r == get_stock_candles(raw_files, symbol, resolution, data, save)
    IN  /\ last = Idle
        /\ raw_files' = r.files
        /\ last' = [op |-> "get_stock_candles", symbol |-> symbol,
                    resolution |-> resolution, data |-> data, save |-> save,
                    before |-> raw_files, raised |-> r.raised, out |-> r.out]
        /\ UNCHANGED <<market_data, indicators, signals, agent_runs,
                       recommendations, writers, run, now>>

NextFinnhub ==
    \/ last = Idle /\ \E symbol \in FinnhubSymbols, resolution \in Resolutions,
                          data \in Answers, save \in BOOLEAN :
          GetStockCandles(symbol, resolution, data, save)
    \/ Return

SpecFinnhub == Init /\ [][NextFinnhub]_vars

\* ------------------------------------------------- two inserts at the same time
\* Two connections run insert_market_data for the same key, each on its batch.
\* SQLite runs one statement at a time, so a step is one INSERT OR IGNORE of one
\* writer; the steps of the two writers interleave in every way, the two serial
\* orders (the second writer waiting for the first to commit) among them.
Writers == {"A", "B"}

StartUpserts(key, a, b) ==
    /\ last = Idle
    /\ writers = <<>>
    /\ Len(insert_market_data(insert_market_data(market_data, a, key).md, b, key).md)
          <= MaxRows
    /\ writers' = [key |-> key, before |-> market_data,
                   df |-> [w \in Writers |-> IF w = "A" THEN a ELSE b],
                   i |-> [w \in Writers |-> 1],
                   inserted_count |-> [w \in Writers |-> 0]]
    /\ UNCHANGED <<market_data, indicators, signals, run, now, last, agent>>

\* One pass of the loop of a writer.
InsertRow(w) ==
    /\ writers # <<>>
    /\ writers.i[w] <= Len(writers.df[w])
    /\ LET md2 == InsertOrIgnore(market_data, writers.key, writers.df[w][writers.i[w]])
       IN  /\ market_data' = md2
           /\ writers' = [writers EXCEPT
                  !.i[w] = @ + 1,
                  !.inserted_count[w] = @ + (Len(md2) - Len(market_data))]
    /\ UNCHANGED <<indicators, signals, run, now, last, agent>>

\* Both writers have committed and returned their counts.
FinishUpserts ==
    /\ writers # <<>>
    /\ \A w \in Writers : writers.i[w] > Len(writers.df[w])
    /\ last' = [op |-> "upserts", key |-> writers.key, before |-> writers.before,
                a |-> writers.df["A"], b |-> writers.df["B"],
                out |-> writers.inserted_count]
    /\ writers' = <<>>
    /\ UNCHANGED <<market_data, indicators, signals, run, now, agent>>

NextUpserts ==
    \/ last = Idle /\ writers = <<>> /\ \E key \in RowKeys, df \in Series :
          InsertMarketData(key, df)
    \/ last = Idle /\ writers = <<>> /\ \E key \in RowKeys, a \in Series, b \in Series :
          StartUpserts(key, a, b)
    \/ \E w \in Writers : InsertRow(w)
    \/ FinishUpserts
    \/ Return

SpecUpserts == Init /\ [][NextUpserts]_vars

\* ------------------------------------------------------- the two rule engines
\* make_recommendations and generate_signals on drawn frames of indicators.  A
\* series is made of rows of a few kinds, one hour apart.
RuleKinds ==
    { \* trend down, nothing fires
      [close |-> 4, volume |-> 1, ema_12 |-> 5, sma_50 |-> 1, sma_200 |-> 2,
       rsi_14 |-> 40, macd |-> -1],
      \* trend up, MACD above its signal, RSI above 50
      [close |-> 4, volume |-> 1, ema_12 |-> 3, sma_50 |-> 3, sma_200 |-> 2,
       rsi_14 |-> 60, macd |-> 1],
      \* the same on high volume
      [close |-> 4, volume |-> 9, ema_12 |-> 3, sma_50 |-> 3, sma_200 |-> 2,
       rsi_14 |-> 60, macd |-> 1],
      \* trend up, MACD on its signal
      [close |-> 4, volume |-> 1, ema_12 |-> 3, sma_50 |-> 3, sma_200 |-> 2,
       rsi_14 |-> 60, macd |-> 0],
      \* oversold with the close above EMA12, on high volume
      [close |-> 4, volume |-> 9, ema_12 |-> 3, sma_50 |-> 1, sma_200 |-> 2,
       rsi_14 |-> 25, macd |-> -1],
      \* the close under SMA50, MACD under its signal
      [close |-> 2, volume |-> 1, ema_12 |-> 3, sma_50 |-> 3, sma_200 |-> 2,
       rsi_14 |-> 40, macd |-> -1] }

RuleRows(kinds) ==
    [i \in 1..Len(kinds) |->
        [time |-> i * 60, close |-> kinds[i].close, volume |-> kinds[i].volume,
         ema_12 |-> kinds[i].ema_12, sma_50 |-> kinds[i].sma_50,
         sma_200 |-> kinds[i].sma_200, rsi_14 |-> kinds[i].rsi_14,
         macd |-> kinds[i].macd, macd_signal |-> 0, atr_14 |-> 1]]

RuleSeries == UNION {[1..n -> RuleKinds] : n \in 0..MaxSeries}

\* One more kind of row, in short series: the momentum signal with the close
\* under SMA50, where the entry rule and the exit rule both hold.
MomentumUnderSma ==
    [close |-> 2, volume |-> 1, ema_12 |-> 3, sma_50 |-> 3, sma_200 |-> 2,
     rsi_14 |-> 60, macd |-> 1]

\* The default configuration, and one that calls an RSI under 65 oversold and
\* averages the volume over three rows.
ShortConfigs ==
    {SignalConfig, [SignalConfig EXCEPT !.rsi_low = 65, !.vol_ma_window = 3]}

ShortSeries == UNION {[1..n -> RuleKinds \cup {MomentumUnderSma}] : n \in 0..3}

Reverse(rows) == [i \in 1..Len(rows) |-> rows[Len(rows) + 1 - i]]

RuleConfigs ==
    {SignalConfig, [SignalConfig EXCEPT !.vol_ma_window = 3, !.enter_threshold = 3]}

ColumnSets ==
    {MIN_COLS \cup {"adx", "obv"}, MIN_COLS \ {"volume"},
     MIN_COLS \ {"time", "atr_14"}, {}}

ClassKinds ==
    { [macd |-> 1, adx |-> 30, rsi_14 |-> 50, obv |-> 2],
      [macd |-> 1, adx |-> 10, rsi_14 |-> 50, obv |-> 1],
      [macd |-> -1, adx |-> 30, rsi_14 |-> 25, obv |-> 1],
      [macd |-> -1, adx |-> 10, rsi_14 |-> 75, obv |-> 1],
      [macd |-> 1, adx |-> 30, rsi_14 |-> 75, obv |-> 3] }

ClassRows(kinds) ==
    [i \in 1..Len(kinds) |->
        [time |-> i * 60, macd |-> kinds[i].macd, macd_signal |-> 0,
         adx |-> kinds[i].adx, rsi_14 |-> kinds[i].rsi_14, obv |-> kinds[i].obv]]

\* Rows with the columns of both engines: the rows of a rule series with an ADX
\* and an OBV, OBV rising with the volume of the row.
RECURSIVE Obv(_, _)
Obv(kinds, i) == IF i = 0 THEN 0 ELSE Obv(kinds, i - 1) + (kinds[i].volume - 1)

Adxs == {10, 30}

JointRows(kinds, adx) ==
    [i \in 1..Len(kinds) |->
        [time |-> i * 60, close |-> kinds[i].close, volume |-> kinds[i].volume,
         ema_12 |-> kinds[i].ema_12, sma_50 |-> kinds[i].sma_50,
         sma_200 |-> kinds[i].sma_200, rsi_14 |-> kinds[i].rsi_14,
         macd |-> kinds[i].macd, macd_signal |-> 0, atr_14 |-> 1,
         adx |-> adx, obv |-> Obv(kinds, i)]]

ClassSeries == UNION {[1..n -> ClassKinds] : n \in 0..MaxSeries - 1}

MakeRecommendations(df, cfg) ==
    LET r == make_recommendations(df, cfg)
    IN  /\ last = Idle
        /\ last' = [op |-> "make_recommendations", df |-> df, cfg |-> cfg,
                    raised |-> r.raised, out |-> r.out]
        /\ UNCHANGED <<market_data, now, others>>

GenerateSignals(rows) ==
    /\ last = Idle
    /\ last' = [op |-> "generate_signals", df |-> rows, out |-> generate_signals(rows)]
    /\ UNCHANGED <<market_data, now, others>>

NextRules ==
    \/ last = Idle /\ \E kinds \in RuleSeries, cfg \in RuleConfigs :
          /\ cfg = SignalConfig \/ Len(kinds) < MaxSeries
          /\ MakeRecommendations([columns |-> MIN_COLS, rows |-> RuleRows(kinds)], cfg)
    \/ last = Idle /\ \E kinds \in RuleSeries :
          /\ Len(kinds) <= 3
          /\ MakeRecommendations([columns |-> MIN_COLS,
                                  rows |-> Reverse(RuleRows(kinds))], SignalConfig)
    \/ last = Idle /\ \E kinds \in ShortSeries, cfg \in ShortConfigs :
          MakeRecommendations([columns |-> MIN_COLS, rows |-> RuleRows(kinds)], cfg)
    \/ last = Idle /\ \E kinds \in RuleSeries, columns \in ColumnSets :
          /\ Len(kinds) <= 2
          /\ MakeRecommendations([columns |-> columns, rows |-> RuleRows(kinds)],
                                 SignalConfig)
    \/ last = Idle /\ \E kinds \in ClassSeries : GenerateSignals(ClassRows(kinds))
    \/ last = Idle /\ \E kinds \in ShortSeries, adx \in Adxs :
          GenerateSignals(JointRows(kinds, adx))
    \/ Return

SpecRules == Init /\ [][NextRules]_vars

\* ------------------------------------------------ the two decisions alone
\* needs_update and the decision of get_download_params on the inputs they
\* read: an interval, the clock, the latest cached instant, the cached count and
\* the requested count.
Intervals ==
    { <<"1", "m">>, <<"1", "5", "m">>, <<"1", "h">>, <<"4", "H">>,
      <<"1", "d">>, <<" ", "1", "w">> }

ParamClock == At(20, 0, 0)

Ages == {-60, 0, 1, 2, 3, 30, 31, 60, 61, 120, 121, 480, 481, 1440, 1441,
         2880, 2881, 20160, 20161}

Latests == {None} \cup {Some(ParamClock - a) : a \in Ages}

MaxAges == {1, 24, 48}

Counts == {0, 1, 5, 99, 500, 1010, 2000}

RequestedCounts == {0, 1, 5, 10, 11, 100, 500, 1010, 1500}

InitParams ==
    /\ market_data = <<>>
    /\ indicators = <<>>
    /\ signals = <<>>
    /\ writers = <<>>
    /\ run = <<>>
    /\ agent_runs = <<>>
    /\ recommendations = <<>>
    /\ raw_files = <<>>
    /\ now = ParamClock
    /\ last = Idle

NeedsUpdate(latest, interval, max_age_hours) ==
    /\ last = Idle
    /\ last' = [op |-> "needs_update", latest |-> latest, interval |-> interval,
                max_age_hours |-> max_age_hours,
                out |-> needs_update(latest, interval, max_age_hours, now)]
    /\ UNCHANGED <<market_data, now, others>>

\* get_cached_data gives no latest timestamp exactly when it gives no frame.
DecideDownload(cached_count, latest, interval, requested_limit) ==
    /\ last = Idle
    /\ (cached_count = 0) <=> (latest = None)
    /\ last' = [op |-> "download_params", cached_count |-> cached_count,
                latest |-> latest, interval |-> interval,
                limit |-> requested_limit,
                out |-> download_params(cached_count, latest, interval,
                                        requested_limit, now)]
    /\ UNCHANGED <<market_data, now, others>>

NextParams ==
    \/ last = Idle /\ \E t \in Latests, iv \in Intervals, h \in MaxAges : NeedsUpdate(t, iv, h)
    \/ last = Idle /\ \E c \in Counts, t \in Latests, iv \in Intervals,
                           r \in RequestedCounts :
          DecideDownload(c, t, iv, r)
    \/ Return

SpecParams == InitParams /\ [][NextParams]_vars

\* ---------------------------------------------------------------- claims
\* What the specification says, stated apart from the operators above.
IntervalDuration(interval) ==
    CASE interval = <<"1", "m">> -> 1
      [] interval = <<"1", "5", "m">> -> 15
      [] interval = <<"1", "h">> -> 60
      [] interval = <<"4", "H">> -> 240
      [] interval = <<"1", "d">> -> 1440
      [] interval = <<" ", "1", "w">> -> 10080

IsStale(latest, interval, max_age_hours, clock) ==
    \/ latest = None
    \/ clock - latest[1] > 2 * IntervalDuration(interval)
    \/ clock - latest[1] > max_age_hours * 60

\* The instants of the bars stored for a key, read off the rows.
StoredTimes(md, key) ==
    {fromisoformat(md[i].timestamp) : i \in {j \in 1..Len(md) : MatchesKey(md[j], key)}}

StoredCount(md, key) == Cardinality({j \in 1..Len(md) : MatchesKey(md[j], key)})

Newest(S) == CHOOSE t \in S : \A u \in S : u <= t

Times(df) == {df[i].time : i \in 1..Len(df)}

StrictlyAscending(df) == \A i \in 1..(Len(df) - 1) : df[i].time < df[i + 1].time

AllBars(md, key) == get_market_data(md, key, None, None, 0)

\* C1: whatever fetches, merges and inserts have run, get_market_data returns for
\* every key (and every limit) bars whose timestamps strictly increase, so no two
\* are equal.
C1_QueryStrictlyIncreasing ==
    \A key \in Keys, limit \in Limits :
        StrictlyAscending(get_market_data(market_data, key, None, None, limit))

\* A batch with a bar the store already held was inserted, and the key's two
\* rows sit in the table in descending time order.
C1_Witness ==
    /\ last.op = "insert_market_data"
    /\ last.rows > last.out
    /\ \E i, j \in 1..Len(market_data) :
          /\ i < j
          /\ MatchesKey(market_data[i], last.key)
          /\ MatchesKey(market_data[j], last.key)
          /\ TextLess(market_data[j].timestamp, market_data[i].timestamp)

\* C2: the frame merge_with_cache builds before trimming has exactly the
\* timestamps of the cached and the new series together, each once and in
\* strictly ascending order; a timestamp of the new series carries the new bar,
\* any other the cached bar.
C2_MergeIsUnionNewWins ==
    [][(last = Idle /\ last'.op = "merge_with_cache") =>
        LET cached == AllBars(market_data, last'.key)
            new == last'.new
            m == last'.merged
        IN  /\ Times(m) = Times(cached) \cup Times(new)
            /\ StrictlyAscending(m)
            /\ \A i \in 1..Len(m) :
                  IF m[i].time \in Times(new)
                  THEN \E j \in 1..Len(new) : new[j] = m[i]
                  ELSE \E j \in 1..Len(cached) : cached[j] = m[i]]_vars

\* A merge of two or more rows in which a new bar restated a cached one: the
\* merged frame carries a value the store does not hold for that timestamp.
C2_Witness ==
    /\ last.op = "merge_with_cache"
    /\ Len(last.merged) >= 2
    /\ \E i \in 1..Len(last.merged) :
          /\ \E j \in 1..Len(last.new) : last.new[j] = last.merged[i]
          /\ \E k \in 1..Len(market_data) :
                /\ MatchesKey(market_data[k], last.key)
                /\ market_data[k].timestamp = isoformat(last.merged[i].time)
                /\ market_data[k].ohlcv # last.merged[i].ohlcv

\* C3: merge_with_cache with limit L > 0 returns at most L rows, the ones with
\* the greatest timestamps of the cached and new bars together (which are the
\* bars the store holds for the key once the merge has saved the new ones).
C3_LimitKeepsNewest ==
    (last.op = "merge_with_cache" /\ last.limit > 0) =>
        LET all == AllBars(market_data, last.key)
            n == Len(all)
            k == IF n < last.limit THEN n ELSE last.limit
        IN  /\ Len(last.out) <= last.limit
            /\ Times(last.out) = {all[i].time : i \in (n - k + 1)..n}

\* C4: merging the same series again with the same limit returns what the first
\* merge returned and leaves the store as the first merge left it.
C4_MergeIdempotent ==
    last.op = "merge_with_cache" =>
        LET again == merge_with_cache(market_data, last.new, last.key, last.limit)
        IN  /\ again.out = last.out
            /\ again.md = market_data

\* C5: get_download_params never returns a negative download limit, and with no
\* bars stored for the key it returns (False, requested_limit, None).
C5_DownloadLimitNotNegative ==
    last.op = "get_download_params" =>
        /\ last.out.download_limit >= 0
        /\ StoredCount(market_data, last.key) = 0 =>
              last.out = [use_cache |-> FALSE, download_limit |-> last.limit,
                          start_date |-> None]

\* The parameters were asked for 500 bars of a key without bars, while the
\* other key has some.
C5_Witness ==
    /\ last.op = "get_download_params"
    /\ StoredCount(market_data, last.key) = 0
    /\ market_data # <<>>
    /\ last.limit = 500

\* C6: with at least the requested number of bars stored for a binance key and
\* the newest of them fresh, get_download_params returns (True, 0, newest), and
\* download_data makes no call to the provider and leaves the store as it was.
C6_FreshCacheNoFetch ==
    [][(/\ last = Idle
        /\ last'.op \in {"get_download_params", "download_data"}
        /\ last'.key.source = "binance"
        /\ StoredCount(market_data, last'.key) > 0
        /\ StoredCount(market_data, last'.key) >= last'.limit
        /\ ~IsStale(Some(Newest(StoredTimes(market_data, last'.key))),
                    last'.key.interval, DefaultMaxAgeHours, now))
       =>
        /\ last'.op = "get_download_params" =>
              last'.out = [use_cache |-> TRUE, download_limit |-> 0,
                           start_date |->
                               Some(Newest(StoredTimes(market_data, last'.key)))]
        /\ last'.op = "download_data" =>
              /\ last'.calls = 0
              /\ ~last'.raised
              /\ market_data' = market_data]_vars

\* download_data returned bars of a binance key without calling the provider.
C6_Witness ==
    /\ last.op = "download_data"
    /\ last.key.source = "binance"
    /\ last.calls = 0
    /\ last.out # None
    /\ StoredCount(market_data, last.key) >= last.limit

\* C7: with at least the requested number of bars cached and the newest stale,
\* the decision is (True, max(100, requested_limit div 10), newest).
C7_StaleTopUp ==
    (/\ last.op = "download_params"
     /\ last.cached_count > 0
     /\ last.cached_count >= last.limit
     /\ IsStale(last.latest, last.interval, DefaultMaxAgeHours, now))
    =>
        last.out = [use_cache |-> TRUE,
                    download_limit |-> IF last.limit \div 10 > 100
                                       THEN last.limit \div 10 ELSE 100,
                    start_date |-> last.latest]

\* A stale, sufficient cache and a request large enough for a tenth of it to
\* exceed 100.
C7_Witness ==
    /\ last.op = "download_params"
    /\ last.cached_count >= last.limit
    /\ IsStale(last.latest, last.interval, DefaultMaxAgeHours, now)
    /\ last.out.download_limit > 100

\* C8: with 0 < cached_count < requested_limit the decision is
\* (True, ceil((requested_limit - cached_count) * 1.1), None), a download limit
\* above the shortfall.
C8_ShortfallCeil ==
    (/\ last.op = "download_params"
     /\ last.cached_count > 0
     /\ last.cached_count < last.limit)
    =>
        LET missing == last.limit - last.cached_count
        IN  /\ last.out = [use_cache |-> TRUE,
                           download_limit |-> (missing * 11 + 9) \div 10,
                           start_date |-> None]
            /\ last.out.download_limit > missing

C10_FreshnessMonotone ==
    (last.op = "needs_update" /\ last.latest # None /\ ~last.out) =>
        \A later \in Latests :
            (later # None /\ later[1] > last.latest[1]) =>
                ~needs_update(later, last.interval, last.max_age_hours, now)

\* needs_update was false for a timestamp that has a later one, ahead of the
\* clock, among the inputs.
C10_Witness ==
    /\ last.op = "needs_update"
    /\ last.latest # None
    /\ ~last.out
    /\ \E later \in Latests :
          later # None /\ later[1] > last.latest[1] /\ later[1] > now

\* The k greatest instants of a set.
Greatest(S, k) == {t \in S : Cardinality({u \in S : u > t}) < k}

\* C11: when the call to the provider fails, download_data raises, whatever the
\* cache held (nothing, too few bars, enough but stale ones), and the store is
\* as the call found it.
C11_FetchFailurePropagates ==
    (last.op = "download_data" /\ last.calls = 1 /\ ~last.ok) =>
        /\ last.raised
        /\ last.out = None
        /\ market_data = last.before

\* The provider failed on a top-up of a binance key whose cache held the
\* requested number of bars, stale ones.
C11_Witness ==
    /\ last.op = "download_data"
    /\ last.key.source = "binance"
    /\ last.calls = 1
    /\ ~last.ok
    /\ last.raised
    /\ StoredCount(last.before, last.key) >= last.limit
    /\ market_data = last.before

\* C12: when the provider answers with zero rows, download_data does not raise,
\* returns the cached series and leaves the store as it found it.
C12_EmptyFetchIsNoError ==
    (last.op = "download_data" /\ last.calls = 1 /\ last.ok /\ last.new = <<>>) =>
        /\ ~last.raised
        /\ last.out = get_cached_data(last.before, last.key, 0).df
        /\ market_data = last.before

\* C13: when download_data returns a series for a binance key and the store
\* then holds at least `limit` bars of the key, the series is made of the
\* `limit` bars with the greatest timestamps.
C13_ReturnsNewestBars ==
    (/\ last.op = "download_data"
     /\ last.key.source = "binance"
     /\ ~last.raised
     /\ last.out # None
     /\ StoredCount(market_data, last.key) >= last.limit)
    =>
        /\ Len(last.out[1]) = last.limit
        /\ Times(last.out[1]) = Greatest(StoredTimes(market_data, last.key), last.limit)

\* C14: get_market_data returns the bars of the key inside the date range in
\* ascending time order; with a limit n and more than n such bars it returns the
\* n of them with the greatest timestamps; with no such bar it returns the empty
\* sequence.
C14_LimitKeepsLastRows ==
    last.op = "get_market_data" =>
        LET inside(t) == /\ last.start_date # None => t >= last.start_date[1]
                         /\ last.end_date # None => t <= last.end_date[1]
            matching == {t \in StoredTimes(market_data, last.key) : inside(t)}
            n == Cardinality(matching)
        IN  /\ StrictlyAscending(last.out)
            /\ \A i \in 1..Len(last.out) :
                  \E k \in 1..Len(market_data) :
                      /\ MatchesKey(market_data[k], last.key)
                      /\ market_data[k].timestamp = isoformat(last.out[i].time)
                      /\ market_data[k].ohlcv = last.out[i].ohlcv
            /\ (last.limit = 0 \/ n <= last.limit) => Times(last.out) = matching
            /\ (last.limit > 0 /\ n > last.limit) =>
                  Times(last.out) = Greatest(matching, last.limit)
            /\ n = 0 => last.out = <<>>

\* The instant of the most recent bar a provider has at `clock`, on the grid of
\* the cached bars.
ServedNewest(latest, d, clock) == latest + ((clock - latest) \div d) * d

\* C15: a top-up on a cache with enough bars, stale ones, leaves no gap: with the
\* provider serving the download_limit most recent consecutive bars, the oldest
\* bar fetched is at most one interval after the newest bar cached, however old
\* that one is.
C15_TopUpLeavesNoGap ==
    (/\ last.op = "download_params"
     /\ last.cached_count > 0
     /\ last.cached_count >= last.limit
     /\ IsStale(last.latest, last.interval, DefaultMaxAgeHours, now))
    =>
        LET d == IntervalDuration(last.interval)
            newest == ServedNewest(last.latest[1], d, now)
            oldest == newest - (last.out.download_limit - 1) * d
        IN  oldest <= last.latest[1] + d

\* C16: a top-up that succeeds on a cache holding at least `limit` bars, stale
\* ones, returns exactly `limit` rows in ascending time order, the newest of the
\* cached and fetched bars together; a row on a fetched timestamp is the fetched
\* bar, cached value or not, and with a provider serving bars up to the present
\* the newest row is a fetched one.
C16_TopUpReturnsFreshWindow ==
    (/\ last.op = "download_data"
     /\ last.key.source = "binance"
     /\ last.calls = 1
     /\ ~last.raised
     /\ StoredCount(last.before, last.key) >= last.limit
     /\ IsStale(get_latest_timestamp(last.before, last.key), last.key.interval,
                DefaultMaxAgeHours, last.clock))
    =>
        LET out == last.out[1]
            cached == AllBars(last.before, last.key)
            new == last.new
        IN  /\ Len(out) = last.limit
            /\ StrictlyAscending(out)
            /\ Times(out) = Greatest(Times(cached) \cup Times(new), last.limit)
            /\ \A i \in 1..Len(out) :
                  IF out[i].time \in Times(new)
                  THEN \E j \in 1..Len(new) : new[j] = out[i]
                  ELSE \E j \in 1..Len(cached) : cached[j] = out[i]
            /\ Newest(Times(new)) >= Newest(Times(cached)) =>
                  \E j \in 1..Len(new) : new[j] = out[Len(out)]

\* A top-up fetched two bars, one of them restating the cached bar with other
\* values, and returned fewer rows than the cached and fetched bars together.
C16_Witness ==
    /\ last.op = "download_data"
    /\ last.key.source = "binance"
    /\ last.calls = 1
    /\ ~last.raised
    /\ StoredCount(last.before, last.key) >= last.limit
    /\ Len(last.new) = 2
    /\ Len(last.out[1]) < StoredCount(market_data, last.key)
    /\ \E k \in 1..Len(last.before), j \in 1..Len(last.new) :
          /\ MatchesKey(last.before[k], last.key)
          /\ last.before[k].timestamp = isoformat(last.new[j].time)
          /\ last.before[k].ohlcv # last.new[j].ohlcv

\* C17: once merge_with_cache has returned, the store holds a bar of the key on
\* every timestamp of the new series, also on those the limit trimmed out of the
\* returned frame.
C17_MergeSavesEveryNewBar ==
    last.op = "merge_with_cache" =>
        Times(last.new) \subseteq StoredTimes(market_data, last.key)

\* A merge returned a frame without one of the new timestamps, which the store
\* did not hold before.
C17_Witness ==
    /\ last.op = "merge_with_cache"
    /\ \E t \in Times(last.new) :
          /\ t \notin Times(last.out)
          /\ t \notin StoredTimes(last.before, last.key)

\* C18: insert_market_data returns the number of rows it added to the table,
\* which is the number of timestamps of the batch the key did not have; bars on
\* timestamps the key already had are skipped without an error; the same batch
\* applied once more returns 0 and leaves the table as it is.
C18_InsertCountsAndRepeats ==
    last.op = "insert_market_data" =>
        LET again == insert_market_data(market_data, last.new, last.key)
        IN  /\ last.out = Len(market_data) - Len(last.before)
            /\ last.out = Cardinality(Times(last.new)
                                         \ StoredTimes(last.before, last.key))
            /\ again.count = 0
            /\ again.md = market_data

\* A batch of two bars was inserted, one on a timestamp the key already had
\* with other values, one on a new timestamp.
C18_Witness ==
    /\ last.op = "insert_market_data"
    /\ last.rows = 2
    /\ last.out = 1
    /\ \E k \in 1..Len(last.before), j \in 1..Len(last.new) :
          /\ MatchesKey(last.before[k], last.key)
          /\ last.before[k].timestamp = isoformat(last.new[j].time)
          /\ last.before[k].ohlcv # last.new[j].ohlcv

Serial(md, key, first, second) ==
    AllBars(insert_market_data(insert_market_data(md, first, key).md, second, key).md,
            key)

\* The bars two batches have on a common timestamp carry the same values.
Agree(a, b) ==
    \A i \in 1..Len(a), j \in 1..Len(b) :
        a[i].time = b[j].time => a[i].ohlcv = b[j].ohlcv

\* C20: two inserts of batches A and B for one key, in whatever order their
\* rows reach the table, leave the bars of the key that A then B would leave
\* and that B then A would leave, also when A and B have a timestamp in common
\* with different values.
C20_UpsertsCommute ==
    last.op = "upserts" =>
        /\ AllBars(market_data, last.key) = Serial(last.before, last.key, last.a, last.b)
        /\ AllBars(market_data, last.key) = Serial(last.before, last.key, last.b, last.a)

\* C20, amended: when the bars A and B have on common timestamps carry the same
\* values, the two inserts, in whatever order their rows reach the table, leave
\* the bars of the key that A then B would leave and that B then A would leave.
C20_AgreeingUpsertsCommute ==
    (last.op = "upserts" /\ Agree(last.a, last.b)) =>
        /\ AllBars(market_data, last.key) = Serial(last.before, last.key, last.a, last.b)
        /\ AllBars(market_data, last.key) = Serial(last.before, last.key, last.b, last.a)

\* Two batches of two bars each on the same two timestamps, new to the table,
\* were inserted with their rows interleaved: each writer inserted one bar.
C20_Witness ==
    /\ last.op = "upserts"
    /\ Agree(last.a, last.b)
    /\ Len(last.a) = 2
    /\ Times(last.a) = Times(last.b)
    /\ last.out["A"] = 1
    /\ last.out["B"] = 1

\* The entry and the exit condition of the position trace on row i, from the
\* sub-signals of the trace and the columns of the series.
EntryCondition(out, cfg, i) ==
    \/ out[i].sig_momentum_trend = 1 /\ out[i].sig_volume = 1
    \/ out[i].sig_mean_reversion = 1 /\ out[i].sig_volume = 1
    \/ out[i].score >= cfg.enter_threshold

ExitCondition(rows, i) ==
    \/ /\ i > 1
       /\ rows[i - 1].macd >= rows[i - 1].macd_signal
       /\ rows[i].macd < rows[i].macd_signal
    \/ rows[i].close < rows[i].sma_50

Sorted(rows) == sort_values_time(rows)

\* C21: the position is flat before the first row; on every row, in ascending
\* time order: flat and entry condition give 'enter' and in_position true;
\* in position and exit condition give 'exit' and in_position false; any other
\* case gives 'hold' and the position of the row before.
C21_PositionTrace ==
    (last.op = "make_recommendations" /\ ~last.raised) =>
        LET out == last.out
            rows == Sorted(last.df.rows)
        IN  /\ Len(out) = Len(rows)
            /\ \A i \in 1..Len(out) :
                  LET before == IF i = 1 THEN FALSE ELSE out[i - 1].in_position
                  IN  /\ out[i].time = rows[i].time
                      /\ (i > 1 => out[i - 1].time < out[i].time)
                      /\ IF ~before /\ EntryCondition(out, last.cfg, i)
                         THEN out[i].recommendation = "enter" /\ out[i].in_position
                         ELSE IF before /\ ExitCondition(rows, i)
                         THEN out[i].recommendation = "exit" /\ ~out[i].in_position
                         ELSE /\ out[i].recommendation = "hold"
                              /\ out[i].in_position = before

\* A trace with an entry on a score equal to the threshold, a later exit and
\* an entry after it.
C21_Witness ==
    /\ last.op = "make_recommendations"
    /\ ~last.raised
    /\ \E i, j, k \in 1..Len(last.out) :
          /\ i < j /\ j < k
          /\ last.out[i].recommendation = "enter"
          /\ last.out[i].score = last.cfg.enter_threshold
          /\ last.out[i].sig_volume = 0
          /\ last.out[j].recommendation = "exit"
          /\ last.out[k].recommendation = "enter"

Prefix(seq, i) == SubSeq(seq, 1, i)

\* C22: the trace up to row i is the trace of the rows up to i alone: score,
\* sub-signals, recommendation and in_position of rows 0..i are the same for
\* every series with these rows first, whatever comes after them and in
\* whatever order the frame lists its rows.
C22_TraceCausality ==
    (last.op = "make_recommendations" /\ ~last.raised) =>
        \A i \in 0..Len(last.out) :
            Prefix(last.out, i) =
                make_recommendations(
                    [columns |-> last.df.columns,
                     rows |-> Prefix(Sorted(last.df.rows), i)], last.cfg).out

\* A series listed newest row first whose trace enters on its second row in
\* time and exits on its third.
C22_Witness ==
    /\ last.op = "make_recommendations"
    /\ ~last.raised
    /\ Len(last.out) = 3
    /\ last.df.rows[1].time > last.df.rows[3].time
    /\ last.out[1].recommendation = "hold"
    /\ last.out[2].recommendation = "enter"
    /\ last.out[3].recommendation = "exit"

\* The inputs of scenario D, rows counted from 0: five rows under the default
\* configuration, the MACD line crosses above its signal at row 3 with the trend
\* up and RSI above 50, RSI is never under the low threshold, no position is
\* open after row 2, and the volume of row 3 is above the mean volume so far.
ScenarioD ==
    /\ last.op = "make_recommendations"
    /\ ~last.raised
    /\ last.cfg = SignalConfig
    /\ Len(last.out) = 5
    /\ LET rows == Sorted(last.df.rows)
       IN  /\ rows[3].macd <= rows[3].macd_signal
           /\ rows[4].macd > rows[4].macd_signal
           /\ rows[4].sma_50 > rows[4].sma_200
           /\ rows[4].rsi_14 > 50
           /\ \A i \in 1..5 : rows[i].rsi_14 >= last.cfg.rsi_low
           /\ rows[4].volume * 4 > SumVolume(rows, 1, 4)
    /\ ~last.out[3].in_position

\* C23 as stated: in scenario D row 3 has volumeSignal 1, the recommendation
\* 'enter', in_position true and score 2*1 + 0 + 1 = 3.
C23_ScenarioD ==
    ScenarioD =>
        /\ last.out[4].sig_volume = 1
        /\ last.out[4].recommendation = "enter"
        /\ last.out[4].in_position
        /\ last.out[4].score = 3

\* C23 amended: under the default configuration (window 20, at least 6
\* observations) no row of a 5-row series has volumeSignal 1; in scenario D
\* row 3 gets 'enter', in_position true and score 2*1 + 0 + 0 = 2.
C23_ScenarioDWithoutVolume ==
    /\ (/\ last.op = "make_recommendations"
        /\ last.cfg = SignalConfig
        /\ Len(last.out) <= 5) =>
            \A i \in 1..Len(last.out) : last.out[i].sig_volume = 0
    /\ ScenarioD =>
          /\ last.out[4].sig_momentum_trend = 1
          /\ last.out[4].sig_mean_reversion = 0
          /\ last.out[4].recommendation = "enter"
          /\ last.out[4].in_position
          /\ last.out[4].score = 2

C23_Witness ==
    /\ ScenarioD
    /\ last.out[4].recommendation = "enter"
    /\ last.out[4].score = 2

\* C29: make_recommendations raises exactly when a required column is missing
\* from the frame, and then it produces no trace rows, whatever rows the frame
\* holds.
C29_MissingColumnRaises ==
    last.op = "make_recommendations" =>
        /\ last.raised <=> ~(MIN_COLS \subseteq last.df.columns)
        /\ last.raised => last.out = <<>>
        /\ ~last.raised => Len(last.out) = Len(last.df.rows)

\* A frame of two rows without its volume column.
C29_Witness ==
    /\ last.op = "make_recommendations"
    /\ last.raised
    /\ Len(last.df.rows) = 2
    /\ MIN_COLS \ last.df.columns = {"volume"}
    /\ last.out = <<>>

\* C30: the classifier's score is the sum of its three sub-signals and the
\* recommendation is 'buy' above zero, 'sell' below zero and 'hold' at zero; a
\* row's recommendation is the one the row gets in a series made of the row
\* and the row before it alone.
C30_StatelessClassification ==
    last.op = "generate_signals" =>
        /\ Len(last.out) = Len(last.df)
        /\ \A i \in 1..Len(last.out) :
              LET o == last.out[i]
                  alone == generate_signals(SubSeq(last.df, Max(1, i - 1), i))
              IN  /\ o.score = o.sig_momentum_trend + o.sig_mean_reversion
                                + o.sig_volume
                  /\ o.score > 0 => o.recommendation = "buy"
                  /\ o.score < 0 => o.recommendation = "sell"
                  /\ o.score = 0 => o.recommendation = "hold"
                  /\ o.recommendation = alone[Len(alone)].recommendation

\* One series with a buy, a sell and a hold at score zero, a buy repeated on
\* the next row.
C30_Witness ==
    /\ last.op = "generate_signals"
    /\ \E i, j, k \in 1..Len(last.out) :
          /\ last.out[i].recommendation = "buy"
          /\ i < Len(last.out) /\ last.out[i + 1].recommendation = "buy"
          /\ last.out[j].recommendation = "sell"
          /\ last.out[k].recommendation = "hold"
          /\ last.out[k].score = 0

\* The ids of the stored bars of a key at an instant.
BarIds(key, t) ==
    {j \in 1..Len(market_data) :
        /\ market_data[j].symbol = key.symbol
        /\ market_data[j].source = key.source
        /\ market_data[j].interval = key.interval
        /\ fromisoformat(market_data[j].timestamp) = t}

DerivedOps == {"insert_indicators", "insert_signals"}

\* The table the last call wrote to.
DerivedTable == IF last.op = "insert_indicators" THEN indicators ELSE signals

\* The values an input row asks to store for bar id.
DerivedRow(row, id) ==
    IF last.op = "insert_indicators"
    THEN [market_data_id |-> id, rsi_14 |-> row.rsi_14]
    ELSE [market_data_id |-> id, score |-> row.score,
          recommendation |-> row.recommendation]

\* Input row i of the last call is in the table, on the bar it matches.
Stored(i) ==
    \E id \in BarIds(last.key, last.new[i].time), k \in 1..Len(DerivedTable) :
        DerivedTable[k] = DerivedRow(last.new[i], id)

RowsOf(table, ids) == {k \in 1..Len(table) : table[k].market_data_id \in ids}

\* C24 as stated: after insert_signals every input row that matches a stored
\* bar is a stored signal row, with 'buy', 'sell', 'hold', 'enter' or 'exit' as
\* its recommendation.
C24_EverySignalPersisted ==
    last.op = "insert_signals" =>
        \A i \in 1..Len(last.new) :
            BarIds(last.key, last.new[i].time) # {} => Stored(i)

\* C25: in insert_indicators and insert_signals an input row that matches no
\* stored bar of the key leaves no row behind and stops nothing: the rows
\* after it that match a bar are stored (signal rows when the table admits
\* their recommendation), the rows of the bars the batch does not name stay as
\* they were, and the returned count is the number of input rows stored.
C25_UnmatchedRowsSkipped ==
    last.op \in DerivedOps =>
        LET matched == {i \in 1..Len(last.new) :
                           BarIds(last.key, last.new[i].time) # {}}
            named == UNION {BarIds(last.key, last.new[i].time) :
                               i \in 1..Len(last.new)}
            admitted(i) == last.op = "insert_signals" =>
                               last.new[i].recommendation \in {"buy", "sell", "hold"}
        IN  /\ \A i \in 1..Len(last.new) : Stored(i) <=> (i \in matched /\ admitted(i))
            /\ last.out = Cardinality({i \in 1..Len(last.new) : Stored(i)})
            /\ \A k \in 1..Len(DerivedTable) :
                  DerivedTable[k].market_data_id \in 1..Len(market_data)
            /\ {DerivedTable[k] : k \in 1..Len(DerivedTable)}
                    \ {DerivedTable[k] : k \in RowsOf(DerivedTable, named)}
               = {last.before[k] : k \in 1..Len(last.before)}
                    \ {last.before[k] : k \in RowsOf(last.before, named)}

\* A batch of an unmatched row followed by a matched one: one row stored, count 1;
\* the instant of the unmatched row is stored for another asset.
C25_Witness ==
    /\ last.op \in DerivedOps
    /\ Len(last.new) = 2
    /\ BarIds(last.key, last.new[1].time) = {}
    /\ \E key \in Keys : BarIds(key, last.new[1].time) # {}
    /\ Stored(2)
    /\ last.out = 1
    /\ Len(last.before) = 1
    /\ Len(DerivedTable) = 2

OneRowPerBar(table) ==
    \A k1, k2 \in 1..Len(table) :
        table[k1].market_data_id = table[k2].market_data_id => k1 = k2

\* C26 as stated: whatever calls of insert_indicators and insert_signals were
\* made, no bar has two indicator rows or two signal rows, and an input row for
\* a bar that has a row already replaces the values of that row.
C26_OneRowPerBarLatestValues ==
    /\ OneRowPerBar(indicators)
    /\ OneRowPerBar(signals)
    /\ last.op \in DerivedOps =>
          \A i \in 1..Len(last.new) :
              RowsOf(last.before, BarIds(last.key, last.new[i].time)) # {}
                  => Stored(i)

\* The stored rows of a key: its bars with their ids, and the indicator and
\* signal rows of these bars.
RowsOfKey(md, ind, sig, key) ==
    LET ids == {j \in 1..Len(md) : md[j].symbol = key.symbol
                                     /\ md[j].source = key.source
                                     /\ md[j].interval = key.interval}
    IN  [bars |-> {<<j, md[j]>> : j \in ids},
         indicators |-> {ind[k] : k \in RowsOf(ind, ids)},
         signals |-> {sig[k] : k \in RowsOf(sig, ids)}]

FrameOps ==
    {"download_data", "merge_with_cache", "insert_market_data",
     "insert_indicators", "insert_signals"}

\* C28: a call of download_data, merge_with_cache, insert_market_data,
\* insert_indicators or insert_signals for one key, whatever its outcome,
\* leaves the bars, indicator rows and signal rows of every other key as they
\* were, and get_market_data returns for the other key what it returned before.
C28_OtherKeysUntouched ==
    [][(last' # last /\ last'.op \in FrameOps) =>
          \A key \in Keys \ {last'.key} :
              /\ RowsOfKey(market_data', indicators', signals', key)
                    = RowsOfKey(market_data, indicators, signals, key)
              /\ \A limit \in Limits :
                    get_market_data(market_data', key, None, None, limit)
                        = get_market_data(market_data, key, None, None, limit)]_vars

\* Both assets have a bar at the same instant, and the call has just stored an
\* indicator row for one of them beside the row of the other.
C28_Witness ==
    /\ last.op = "insert_indicators"
    /\ last.out = 1
    /\ Len(indicators) = 2
    /\ Len(signals) = 1
    /\ \E i, j \in 1..Len(market_data) :
          /\ i # j
          /\ market_data[i].timestamp = market_data[j].timestamp

\* C27 as stated: a run over a non-empty asset list ends with every asset
\* attempted in the order of the list, whichever assets failed, and with the
\* summary reported, in which successful + failed + skipped is the number of
\* assets.
C27_EveryAssetAttempted ==
    (run # <<>> /\ run.assets # <<>>
        /\ (run.at # "loop" \/ run.idx > Len(run.assets))) =>
            /\ run.attempted = [i \in 1..Len(run.assets) |-> i]
            /\ run.at # "exited"
            /\ run.successful + run.failed + run.skipped = Len(run.assets)

\* The rows up to i of a trace with a recommendation.
RowsWith(out, rec, i) == {j \in 1..i : out[j].recommendation = rec}

\* C37: in every trace 'enter' and 'exit' alternate, 'enter' first: up to any
\* row there are as many 'enter' rows as 'exit' rows, or one more, and
\* in_position is true exactly when there is one more; where the entry and
\* the exit condition both hold the row is 'enter' from flat and 'exit' from a
\* position.
C37_EnterExitAlternate ==
    (last.op = "make_recommendations" /\ ~last.raised) =>
        LET out == last.out
            rows == Sorted(last.df.rows)
        IN  \A i \in 1..Len(out) :
                LET open == Cardinality(RowsWith(out, "enter", i))
                            - Cardinality(RowsWith(out, "exit", i))
                    before == IF i = 1 THEN FALSE ELSE out[i - 1].in_position
                IN  /\ open \in {0, 1}
                    /\ out[i].in_position <=> open = 1
                    /\ out[i].recommendation = "enter" => ~before
                    /\ out[i].recommendation = "exit" => before
                    /\ (EntryCondition(out, last.cfg, i) /\ ExitCondition(rows, i)) =>
                          out[i].recommendation = IF before THEN "exit" ELSE "enter"

\* Three rows on which both conditions hold: enter, exit, enter.
C37_Witness ==
    /\ last.op = "make_recommendations"
    /\ ~last.raised
    /\ Len(last.out) = 3
    /\ \A i \in 1..3 :
          /\ EntryCondition(last.out, last.cfg, i)
          /\ ExitCondition(Sorted(last.df.rows), i)
    /\ last.out[1].recommendation = "enter"
    /\ last.out[2].recommendation = "exit"
    /\ last.out[3].recommendation = "enter"

\* C38: on every row of a trace the score is 2*sig_momentum_trend +
\* sig_mean_reversion + sig_volume and each sub-signal is 0 or 1; under a
\* configuration with rsi_low <= 50 the momentum signal and the mean-reversion
\* signal are never both 1, so that the score is 0, 1, 2 or 3.
C38_ScoreRange ==
    (last.op = "make_recommendations" /\ ~last.raised) =>
        \A i \in 1..Len(last.out) :
            LET o == last.out[i]
            IN  /\ o.sig_momentum_trend \in {0, 1}
                /\ o.sig_mean_reversion \in {0, 1}
                /\ o.sig_volume \in {0, 1}
                /\ o.score = 2 * o.sig_momentum_trend + o.sig_mean_reversion
                              + o.sig_volume
                /\ last.cfg.rsi_low <= 50 =>
                      /\ ~(o.sig_momentum_trend = 1 /\ o.sig_mean_reversion = 1)
                      /\ o.score \in 0..3

\* A trace under rsi_low = 30 with the scores 0, 1, 2 and 3.
C38_Witness ==
    /\ last.op = "make_recommendations"
    /\ ~last.raised
    /\ last.cfg.rsi_low = 30
    /\ \A n \in 0..3 : \E i \in 1..Len(last.out) : last.out[i].score = n

\* C39: with enter_threshold = 2 the entry condition holds on a row exactly
\* when the score of the row is at least 2, that is when the momentum signal
\* is 1 or the mean-reversion and the volume signal are both 1; from flat such
\* a row is 'enter', the momentum signal alone being enough, and any other row
\* is 'hold'.
C39_EntryIsScoreAtLeastTwo ==
    (last.op = "make_recommendations" /\ ~last.raised
        /\ last.cfg.enter_threshold = 2) =>
        \A i \in 1..Len(last.out) :
            LET o == last.out[i]
                flat == i = 1 \/ ~last.out[i - 1].in_position
                signalled == \/ o.sig_momentum_trend = 1
                             \/ o.sig_mean_reversion = 1 /\ o.sig_volume = 1
            IN  /\ EntryCondition(last.out, last.cfg, i) <=> o.score >= 2
                /\ o.score >= 2 <=> signalled
                /\ flat => (o.recommendation = "enter" <=> signalled)
                /\ (flat /\ ~signalled) => o.recommendation = "hold"

\* From flat, one row enters on the momentum signal without volume and
\* another on mean reversion with volume.
C39_Witness ==
    /\ last.op = "make_recommendations"
    /\ ~last.raised
    /\ last.cfg.enter_threshold = 2
    /\ \E i, j \in 1..Len(last.out) :
          /\ last.out[i].recommendation = "enter"
          /\ last.out[i].sig_momentum_trend = 1
          /\ last.out[i].sig_volume = 0
          /\ last.out[i].score = 2
          /\ last.out[j].recommendation = "enter"
          /\ last.out[j].sig_momentum_trend = 0
          /\ last.out[j].sig_mean_reversion = 1
          /\ last.out[j].sig_volume = 1

\* C40 as stated: on every row of a frame of indicators the momentum-trend,
\* mean-reversion and volume sub-signals of generate_signals are 0 or 1 and are
\* those make_recommendations computes for the row under its default
\* configuration.
C40_SameSubSignals ==
    (last.op = "generate_signals" /\ last.df # <<>>
        /\ "sma_50" \in DOMAIN last.df[1]) =>
        LET trace == make_recommendations(
                         [columns |-> MIN_COLS \cup {"adx", "obv"},
                          rows |-> last.df], SignalConfig).out
        IN  \A i \in 1..Len(last.out) :
                /\ last.out[i].sig_momentum_trend \in {0, 1}
                /\ last.out[i].sig_mean_reversion \in {0, 1}
                /\ last.out[i].sig_volume \in {0, 1}
                /\ last.out[i].sig_momentum_trend = trace[i].sig_momentum_trend
                /\ last.out[i].sig_mean_reversion = trace[i].sig_mean_reversion
                /\ last.out[i].sig_volume = trace[i].sig_volume

\* C31 as stated: whatever calls of create_agent_run and insert_recommendation
\* were made, no two stored recommendations have the same agent run and the
\* same symbol.
C31_OneRecommendationPerRunSymbol ==
    \A i, j \in 1..Len(recommendations) :
        (/\ recommendations[i].agent_run_id = recommendations[j].agent_run_id
         /\ recommendations[i].symbol = recommendations[j].symbol) => i = j

\* C32 as stated: every stored recommendation references an agent run that
\* exists, and is returned by get_recommendation_history under a limit as large
\* as the table.
C32_RecommendationsReferenceRuns ==
    \A i \in 1..Len(recommendations) :
        /\ \E k \in 1..Len(agent_runs) :
              agent_runs[k].id = recommendations[i].agent_run_id
        /\ \E h \in 1..Len(get_recommendation_history(
                                agent_runs, recommendations, None, 100)) :
              LET row == get_recommendation_history(
                             agent_runs, recommendations, None, 100)[h]
              IN  /\ row.symbol = recommendations[i].symbol
                  /\ row.recommendation = recommendations[i].recommendation
                  /\ row.created_at = recommendations[i].created_at

\* The run has ended: the agent step is over, the configuration was empty or
\* the program was left.
PipelineEnded ==
    run # <<>> /\ run.at \in {"agent done", "agent failed", "agent skipped",
                               "returned", "exited"}

\* C33 as stated: the agent is invoked at most once, only after every
\* configured asset was attempted, and a run that has ended invoked it exactly
\* when at least one asset was processed successfully; the step in which the
\* agent fails leaves the stored bars, indicators and signals as they were.
C33_AgentOnceAfterAllAssets ==
    [][/\ run' # <<>> =>
            /\ run'.agent_calls <= 1
            /\ run'.agent_calls = 1 =>
                  run'.attempted = [i \in 1..Len(run'.assets) |-> i]
            /\ PipelineEnded' => (run'.agent_calls = 1 <=> run'.successful > 0)
       /\ (run # <<>> /\ run'.at = "agent failed") =>
            UNCHANGED <<market_data, indicators, signals>>]_vars

\* C34: get_stock_candles on an 'ok' answer with n >= 1 candles and save set
\* returns a frame of n rows with exactly the columns time, open, high, low,
\* close, volume, the times being instants in ascending order, and the file
\* raw/<symbol>_<resolution>.parquet then holds these rows; on an answer whose
\* status is not 'ok' it returns a frame of the same six columns without rows
\* and leaves every file as it was.
C34_CandlesFrameAndFile ==
    (last.op = "get_stock_candles" /\ last.data # None) =>
        LET d == last.data[1]
            path == <<"raw", last.symbol \o "_" \o last.resolution \o ".parquet">>
        IN  /\ (/\ d.s = "ok"
                /\ Len(d.t) >= 1
                /\ \A c \in {"o", "h", "l", "c", "v"} : Len(d[c]) = Len(d.t)
                /\ last.save) =>
                   /\ ~last.raised
                   /\ last.out[1].columns
                         = {"time", "open", "high", "low", "close", "volume"}
                   /\ Len(last.out[1].rows) = Len(d.t)
                   /\ \A i \in 1..Len(last.out[1].rows) :
                         /\ DOMAIN last.out[1].rows[i] = last.out[1].columns
                         /\ last.out[1].rows[i].time.tz = "UTC"
                         /\ \E j \in 1..Len(d.t) :
                               /\ last.out[1].rows[i].time.epoch_s = d.t[j]
                               /\ last.out[1].rows[i].open = d.o[j]
                               /\ last.out[1].rows[i].volume = d.v[j]
                   /\ \A i \in 1..(Len(last.out[1].rows) - 1) :
                         last.out[1].rows[i].time.epoch_s
                             <= last.out[1].rows[i + 1].time.epoch_s
                   /\ path \in DOMAIN raw_files
                   /\ raw_files[path] = last.out[1].rows
            /\ d.s # "ok" =>
                   /\ ~last.raised
                   /\ last.out[1].columns
                         = {"time", "open", "high", "low", "close", "volume"}
                   /\ last.out[1].rows = <<>>
                   /\ raw_files = last.before

\* C34 witness: an 'ok' answer listing the later candle first was saved, over
\* an older file of the same name.
C34_Witness ==
    /\ last.op = "get_stock_candles"
    /\ last.data # None
    /\ last.data[1].s = "ok"
    /\ last.save
    /\ ~last.raised
    /\ Len(last.data[1].t) = 2
    /\ last.data[1].t[1] > last.data[1].t[2]
    /\ <<"raw", "AAPL_D.parquet">> \in DOMAIN last.before
    /\ raw_files[<<"raw", "AAPL_D.parquet">>] # last.before[<<"raw", "AAPL_D.parquet">>]

\* C35 as stated: after a download_data that called the provider and merged,
\* every returned bar has the values of the bar the store holds for its
\* timestamp, and so the values a read of the cache made right after returns
\* for that timestamp.
C35_ReturnedAgreesWithStore ==
    (last.op = "download_data" /\ last.calls = 1 /\ ~last.raised
        /\ last.out # None) =>
        LET out == last.out[1]
            stored == AllBars(market_data, last.key)
            again == get_cached_data(market_data, last.key, last.limit).df
        IN  \A i \in 1..Len(out) :
                /\ \A j \in 1..Len(stored) :
                      stored[j].time = out[i].time => stored[j] = out[i]
                /\ again # None =>
                      \A j \in 1..Len(again[1]) :
                          again[1][j].time = out[i].time => again[1][j] = out[i]

\* C36 as stated: after a download_data that returned a series, the same call
\* made again at once, with the same limit and the clock where it was, makes no
\* call to the provider, whatever the provider would answer.
C36_NoFetchOnRepeat ==
    (last.op = "download_data" /\ ~last.raised /\ last.out # None) =>
        \A o \in Outcomes :
            _download_with_cache(market_data, last.key, last.limit, o, now).calls = 0

====
